---- MODULE Spec2Model ----
(***************************************************************************)
(* Item query, query-result cache, prefetch cache and prefetch job manager *)
(* of jellyfin-tag-ui (routes/items.py, services/items.py,                 *)
(* services/items_cache.py), its tag vocabulary (routes/tags.py,           *)
(* services/tags.py) and the item update of jellyfin_client.py.            *)
(*                                                                         *)
(* Sizes are scaled: the configuration constants keep their order          *)
(* (ITEM_PAGE_FETCH_LIMIT < AGGREGATE_FETCH_LIMIT <                        *)
(* ITEM_PREFETCH_TRIGGER_START_INDEX, query TTL < prefetch TTL < job TTL)  *)
(* but not their magnitude.  One scope (base, user, library, item types)   *)
(* is modelled; cache keys vary in the remaining fields.                   *)
(***************************************************************************)
EXTENDS Integers, Sequences, FiniteSets, TLC

VARIABLES
    remote,         \* the remote catalog server: items, page cap, behaviour
    tagCache,       \* tag vocabulary cache entry of the scope, or NoTagEntry
    tagRefresh,     \* refreshes of the tag cache entry: in-progress mark, threads
    tagReqs,        \* the POST /api/tags requests: position and locals of each
    now,            \* time.time()
    queryCache,     \* _ITEM_QUERY_CACHE, oldest first
    prefetchCache,  \* _ITEM_PREFETCH_CACHE, oldest first
    jobs,           \* every ItemPrefetchJob ever created, by job id (index)
    jobTable,       \* ids in _ITEM_PREFETCH_JOBS
    jobsByKey,      \* _ITEM_PREFETCH_JOBS_BY_KEY as a set of <<key, job id>>
    jobPc,          \* position of each job's thread in _run_prefetch_job
    jobLocal,       \* locals of each job's thread (scan result)
    lastReq,        \* the request handled by the latest handler step
    lastResp,       \* its response
    lastObs         \* what that handler did: remote fetches, cache reads

vars == <<remote, tagCache, tagRefresh, tagReqs, now, queryCache, prefetchCache,
          jobs, jobTable, jobsByKey, jobPc, jobLocal, lastReq, lastResp, lastObs>>

----
\* Configuration (src/jellyfin_tag_ui/config.py), scaled.

AGGREGATE_FETCH_LIMIT == 3
ITEM_PAGE_FETCH_LIMIT == 2
ITEM_QUERY_CACHE_TTL == 1
ITEM_QUERY_CACHE_MAX_ENTRIES == 2
ITEM_PREFETCH_CACHE_LIMIT == 6
ITEM_PREFETCH_CACHE_MAX_ENTRIES == 2
ITEM_PREFETCH_CACHE_TTL == 2
ITEM_PREFETCH_JOB_TTL == 3
ITEM_PREFETCH_TRIGGER_START_INDEX == 4
TAG_CACHE_TTL == 2
TAG_PAGE_LIMIT == 2
MAX_TAG_PAGES == 3
\* "wait_deadline = time.time() + 5" in api_tags
TAG_WAIT_SECONDS == 1
COLLECTION_ITEM_TYPES == {"BoxSet", "CollectionFolder"}
\* min(8, max(2, page_count)) in _collect_matches
MAX_PREFETCH_PAGES == 8
MIN_PREFETCH_PAGES == 2

\* Bounds of the model.
MaxItems == 4      \* catalog length in the scan specification
MaxCap == 2        \* largest server page cap
MaxStart == 2      \* largest shallow startIndex
MaxTime == 3       \* the clock stops here
MaxJobs == 2       \* prefetch jobs ever created (specifications Jobs, Api)
MaxRaceJobs == 3   \* prefetch jobs ever created (specification Race)
MaxCacheItems == 2 \* items of a catalog (specification Cache)
MaxLaxItems == 3   \* items of a catalog (specification Lax)
MaxTagEntries == 3 \* entries of a tag listing (specification Vocabulary)
MaxTagRequests == 2 \* POST /api/tags requests (specification Tags)
MaxRefreshes == 2  \* refreshes of the tag cache entry ever started (specification Tags)
MaxTagParts == 3   \* parts of a tag string (specification Normalize)

----
\* Small helpers.

Min(a, b) == IF a < b THEN a ELSE b
Max(a, b) == IF a > b THEN a ELSE b
CeilDiv(a, b) == (a + b - 1) \div b

\* Python slice s[lo:hi] with 0-based, end-exclusive, clamped indices.
Slice(s, lo, hi) ==
    LET h == Min(hi, Len(s))
    IN  IF lo >= h THEN <<>> ELSE SubSeq(s, lo + 1, h)

SeqToSet(s) == {s[i] : i \in DOMAIN s}

----
\* Text.  A name is a sequence of characters; str.casefold() maps the
\* upper-case letters onto the lower-case ones.

CharFold(c) ==
    CASE c = "A" -> "a"
      [] c = "B" -> "b"
      [] c = "D" -> "d"
      [] c = "G" -> "g"
      [] c = "K" -> "k"
      [] OTHER -> c

\* Code point order: upper case before lower case.
CharCode(c) ==
    CASE c = " " -> 32
      [] c = "A" -> 65
      [] c = "B" -> 66
      [] c = "D" -> 68
      [] c = "G" -> 71
      [] c = "K" -> 75
      [] c = "a" -> 97
      [] c = "b" -> 98
      [] c = "d" -> 100
      [] c = "e" -> 101
      [] c = "g" -> 103
      [] c = "k" -> 107
      [] c = "o" -> 111
      [] c = "p" -> 112
      [] c = "r" -> 114
      [] OTHER -> 0

casefold(s) == [i \in DOMAIN s |-> CharFold(s[i])]

\* needle in haystack (Python substring test on str).
Contains(haystack, needle) ==
    \E i \in 0..(Len(haystack) - Len(needle)) :
        \A j \in 1..Len(needle) : haystack[i + j] = needle[j]

RECURSIVE StrLess(_, _)
\* a < b for Python strings (lexicographic by code point).
StrLess(a, b) ==
    IF Len(b) = 0 THEN FALSE
    ELSE IF Len(a) = 0 THEN TRUE
    ELSE IF CharCode(a[1]) # CharCode(b[1]) THEN CharCode(a[1]) < CharCode(b[1])
    ELSE StrLess(Tail(a), Tail(b))

\* Tag names are atomic; casefold on the tag universe.
TagFold(t) ==
    CASE t = "Keep" -> "keep"
      [] t = "Drop" -> "drop"
      [] OTHER -> t

\* The characters of a tag name.
TagText(t) ==
    CASE t = "Keep" -> <<"K", "e", "e", "p">>
      [] t = "keep" -> <<"k", "e", "e", "p">>
      [] t = " Keep" -> <<" ", "K", "e", "e", "p">>
      [] t = "Drop" -> <<"D", "r", "o", "p">>
      [] t = "drop" -> <<"d", "r", "o", "p">>
      [] t = " " -> <<" ">>
      [] OTHER -> <<>>

\* str.strip() on the tag universe: " Keep" carries surrounding whitespace,
\* " " is blank.
TagStrip(t) ==
    CASE t = " Keep" -> "Keep"
      [] t = " " -> ""
      [] OTHER -> t

----
\* Items.  A raw item of the remote is [Id, Type, Name, SortName, Tags];
\* an empty SortName stands for a missing one.

NoTarget == -1     \* max_matches = None
NoTotal == -1      \* payload without an integer TotalRecordCount

RECURSIVE DedupTags(_, _)
\* The _add calls of item_tags: trimmed, blank names skipped, first spelling
\* of every case-folded name kept.
DedupTags(tags, seen) ==
    IF tags = <<>> THEN <<>>
    ELSE IF TagStrip(Head(tags)) = "" THEN DedupTags(Tail(tags), seen)
    ELSE IF TagFold(TagStrip(Head(tags))) \in seen THEN DedupTags(Tail(tags), seen)
    ELSE <<TagStrip(Head(tags))>>
            \o DedupTags(Tail(tags), seen \cup {TagFold(TagStrip(Head(tags)))})

\* item.get(field) or []: a section the item does not carry is empty.
ItemSection(item, field) == IF field \in DOMAIN item THEN item[field] ELSE <<>>

\* The names item_tags passes to _add, in the order it passes them: the
\* Name of every TagItems entry, then Tags, then InheritedTags.
ItemTagNames(item) ==
    [i \in DOMAIN ItemSection(item, "TagItems") |-> ItemSection(item, "TagItems")[i].Name]
        \o ItemSection(item, "Tags") \o ItemSection(item, "InheritedTags")

item_tags_TagsOnly(item) == DedupTags(ItemSection(item, "Tags"), {})

\* services/tags.py item_tags: first spelling of every tag, case-insensitively.
item_tags(item) == DedupTags(ItemTagNames(item), {})

serialize_item_for_response(item) ==
    [Id |-> item.Id,
     Type |-> item.Type,
     Name |-> item.Name,
     SortName |-> IF item.SortName # <<>> THEN item.SortName ELSE item.Name,
     Tags |-> item_tags(item)]

\* The title test of item_matches_filters: Name or SortName, blank ones skipped.
TitleMatches(item, title_query_lower) ==
    \E text \in {item.Name, item.SortName} :
        /\ text # <<>>
        /\ Contains(casefold(text), title_query_lower)

\* item_matches_filters with the title looked for in Name only.
item_matches_filters_NameOnly(item, include_tag_keys, exclude_tag_keys, title_query_lower) ==
    LET tags == {TagFold(t) : t \in SeqToSet(item_tags(item))}
    IN  /\ (include_tag_keys # {} => include_tag_keys \subseteq tags)
        /\ (exclude_tag_keys # {} => tags \cap exclude_tag_keys = {})
        /\ (title_query_lower # <<>>
                => item.Name # <<>> /\ Contains(casefold(item.Name), title_query_lower))

item_matches_filters(item, include_tag_keys, exclude_tag_keys, title_query_lower) ==
    LET tags == {TagFold(t) : t \in SeqToSet(item_tags(item))}
    IN  /\ (include_tag_keys # {} => include_tag_keys \subseteq tags)
        /\ (exclude_tag_keys # {} => tags \cap exclude_tag_keys = {})
        /\ (title_query_lower # <<>> => TitleMatches(item, title_query_lower))

\* _name_sort_key: (sort name or name, name, id), the first two case-folded.
SortNameOf(item) == casefold(IF item.SortName # <<>> THEN item.SortName ELSE item.Name)

NameKeyLess(a, b) ==
    IF SortNameOf(a) # SortNameOf(b) THEN StrLess(SortNameOf(a), SortNameOf(b))
    ELSE IF casefold(a.Name) # casefold(b.Name)
         THEN StrLess(casefold(a.Name), casefold(b.Name))
    ELSE a.Id < b.Id

RECURSIVE InsertByKey(_, _)
\* Stable insertion: x goes after every element whose key is not greater.
InsertByKey(sorted, x) ==
    IF sorted = <<>> THEN <<x>>
    ELSE IF NameKeyLess(x, Head(sorted)) THEN <<x>> \o sorted
    ELSE <<Head(sorted)>> \o InsertByKey(Tail(sorted), x)

RECURSIVE SortedByName(_)
SortedByName(items) ==
    IF items = <<>> THEN <<>>
    ELSE InsertByKey(SortedByName(SubSeq(items, 1, Len(items) - 1)), items[Len(items)])

Reverse(s) == [i \in 1..Len(s) |-> s[Len(s) + 1 - i]]

sort_items_for_response(items, sort_by, sort_order) ==
    IF sort_order = "Descending" THEN Reverse(SortedByName(items))
    ELSE SortedByName(items)

----
\* The remote catalog server.
\* remote = [catalog, cap, search, total, excludes, sorts]:
\*   catalog   the raw items of the library;
\*   cap       the largest page it returns (0: no cap);
\*   search    whether it applies SearchTerm;
\*   total     whether it reports TotalRecordCount;
\*   excludes  whether it applies ExcludeItemTypes;
\*   sorts     whether it applies SortBy and SortOrder (otherwise it returns
\*             the items in catalog order);
\*   short     (only on remotes with inaccurate totals) by how much the
\*             reported TotalRecordCount falls short of the true number.

RemoteList(search_term, exclude_types, sort_by, sort_order) ==
    LET Visible(it) ==
            /\ (remote.excludes => it.Type \notin exclude_types)
            /\ (remote.search /\ search_term # <<>>
                    => TitleMatches(it, casefold(search_term)))
    IN  IF remote.sorts
        THEN sort_items_for_response(SelectSeq(remote.catalog, Visible),
                                     sort_by, sort_order)
        ELSE SelectSeq(remote.catalog, Visible)

\* The TotalRecordCount the remote reports for a list of n records.
ReportedTotal(n) ==
    IF "short" \in DOMAIN remote THEN Max(0, n - remote.short) ELSE n

\* services/items.py page_items: one GET of <base>/Users/<user>/Items.
page_items(start_index, limit, search_term, exclude_types, sort_by, sort_order) ==
    LET all == RemoteList(search_term, exclude_types, sort_by, sort_order)
        n == IF remote.cap > 0 THEN Min(limit, remote.cap) ELSE limit
    IN  [Items |-> Slice(all, start_index, start_index + n),
         TotalRecordCount |-> IF remote.total THEN ReportedTotal(Len(all)) ELSE NoTotal]

----
\* The tag vocabulary cache of the scope (services/tags.py; the cache itself
\* is outside the modelled sources).  tagCache = [present, tags, source,
\* error, updated].

NoTagEntry == [present |-> FALSE, tags |-> <<>>, source |-> "", error |-> "",
               updated |-> 0]

\* No refresh was ever started.
NoRefresh == [active |-> FALSE, threads |-> <<>>]

is_tag_cache_stale(entry) == now - entry.updated >= TAG_CACHE_TTL

\* routes/items.py _missing_include_tags: [missing, entry].
missing_include_tags(include_tag_keys) ==
    IF ~tagCache.present \/ is_tag_cache_stale(tagCache)
    THEN [missing |-> {}, entry |-> NoTagEntry]
    ELSE [missing |-> include_tag_keys \ {TagFold(t) : t \in SeqToSet(tagCache.tags)},
          entry |-> tagCache]

----
\* routes/items.py _collect_matches.
\* p  = [include_tag_keys, exclude_tag_keys, excluded_types, title_query,
\*       sort_by, sort_order, limit, start_index, max_matches, bad]
\*      (bad: the start offsets whose page fetch raises);
\* st = [pending, next_fetch_start, next_process_start, fetch_limit,
\*       matched, fetches, consumed] (pending: the submitted, unconsumed
\*      <<start, limit>>; fetches: every page fetch submitted, in order;
\*      consumed: <<start, limit, size, submitted>> of every page taken from
\*      its future, in order; submitted: the number of page fetches submitted
\*      by then).
\* Result: [matched, complete, error, fetches, consumed, exit] (exit: the
\* statement that left the loop).

RECURSIVE MatchPage(_, _, _)
\* The for loop over a page: [matched, stop_early].
MatchPage(items, matched, p) ==
    IF items = <<>> THEN [matched |-> matched, stop_early |-> FALSE]
    ELSE IF item_matches_filters(Head(items), p.include_tag_keys,
                                 p.exclude_tag_keys, casefold(p.title_query))
    THEN LET m == Append(matched, serialize_item_for_response(Head(items)))
         IN  IF p.max_matches # NoTarget /\ Len(m) >= p.max_matches
             THEN [matched |-> m, stop_early |-> TRUE]
             ELSE MatchPage(Tail(items), m, p)
    ELSE MatchPage(Tail(items), matched, p)

InitialFetchLimit(p) ==
    Min(AGGREGATE_FETCH_LIMIT,
        Max(Max(ITEM_PAGE_FETCH_LIMIT, p.limit),
            IF p.max_matches = NoTarget THEN 0 ELSE p.max_matches))

MaxPrefetchPages(p) ==
    LET fetch_limit == InitialFetchLimit(p)
        page_estimate == IF p.max_matches = NoTarget \/ p.max_matches = 0
                         THEN fetch_limit ELSE p.max_matches
        page_count == IF page_estimate # 0
                      THEN Max(1, CeilDiv(page_estimate, fetch_limit)) ELSE 1
    IN  Min(MAX_PREFETCH_PAGES, Max(MIN_PREFETCH_PAGES, page_count))

RECURSIVE SchedulePages(_, _)
\* while len(pending) < max_prefetch_pages and not stop_scheduling: submit.
SchedulePages(p, st) ==
    IF Cardinality(st.pending) < MaxPrefetchPages(p)
    THEN SchedulePages(p,
            [st EXCEPT !.pending = @ \cup {<<st.next_fetch_start, st.fetch_limit>>},
                       !.fetches = Append(@, <<st.next_fetch_start, st.fetch_limit>>),
                       !.next_fetch_start = @ + st.fetch_limit])
    ELSE st

ScanResult(st, complete, error, exit) ==
    [matched |-> st.matched, complete |-> complete, error |-> error,
     fetches |-> st.fetches, consumed |-> st.consumed, exit |-> exit]

\* next_process_start += fetch_limit, after a page has been taken.
AdvanceProcessStart(st) == st.next_process_start + st.fetch_limit

\* The page size later fetches use once a short page showed the server's cap.
ShrunkFetchLimit(page_size, fetch_limit) ==
    IF 0 < page_size /\ page_size < fetch_limit THEN page_size ELSE fetch_limit

RECURSIVE ScanLoop(_, _)
ScanLoop(p, st0) ==
    LET st == SchedulePages(p, st0)
        due == {f \in st.pending : f[1] = st.next_process_start}
    IN  IF due = {} THEN ScanResult(st, TRUE, FALSE, "no future")
        ELSE
        LET f == CHOOSE x \in due : TRUE
            page_start == st.next_process_start
        IN  IF page_start \in p.bad THEN ScanResult(st, FALSE, TRUE, "raised")
            ELSE
            LET payload == page_items(page_start, f[2], p.title_query,
                                      p.excluded_types, p.sort_by, p.sort_order)
                raw_items == payload.Items
                page_size == Len(raw_items)
                items == SelectSeq(raw_items, LAMBDA it : it.Type \notin p.excluded_types)
                mp == MatchPage(items, st.matched, p)
                st1 == [st EXCEPT !.pending = @ \ {f},
                                  !.next_process_start = AdvanceProcessStart(st),
                                  !.matched = mp.matched,
                                  !.consumed = Append(@, <<page_start, f[2], page_size,
                                                          Len(st.fetches)>>)]
                total_count == payload.TotalRecordCount
            IN  IF page_size = 0
                THEN ScanResult([st1 EXCEPT !.matched = st.matched], TRUE, FALSE,
                                "empty page")
                ELSE IF mp.stop_early THEN ScanResult(st1, FALSE, FALSE, "target")
                ELSE IF total_count # NoTotal /\ page_start + page_size < total_count
                THEN ScanLoop(p, [st1 EXCEPT !.fetch_limit =
                                     ShrunkFetchLimit(page_size, st.fetch_limit)])
                ELSE IF page_size < st.fetch_limit
                THEN ScanResult(st1, TRUE, FALSE, "short page")
                ELSE ScanLoop(p, st1)

collect_matches(p) ==
    IF p.include_tag_keys # {} /\ missing_include_tags(p.include_tag_keys).missing # {}
    THEN [matched |-> <<>>, complete |-> TRUE, error |-> FALSE, fetches |-> <<>>,
          consumed |-> <<>>, exit |-> "no scan"]
    ELSE IF p.limit <= 0
    THEN [matched |-> <<>>, complete |-> TRUE, error |-> FALSE, fetches |-> <<>>,
          consumed |-> <<>>, exit |-> "no scan"]
    ELSE ScanLoop(p, [pending |-> {},
                      next_fetch_start |-> p.start_index,
                      next_process_start |-> p.start_index,
                      fetch_limit |-> InitialFetchLimit(p),
                      matched |-> <<>>,
                      fetches |-> <<>>,
                      consumed |-> <<>>])

----
\* Requests.  A request is the JSON body of POST /api/items:
\* [types, includeTags, excludeTags, excludeCollections, titleQuery,
\*  sortOrder, startIndex, limit].  types is the list of item type names;
\* includeTags and excludeTags are the lists of the comma- or
\* semicolon-separated parts of the tag strings; titleQuery is a text.

RECURSIVE LStrip(_)
LStrip(s) == IF s # <<>> /\ Head(s) = " " THEN LStrip(Tail(s)) ELSE s

\* str.strip() on a text.
StripText(s) == Reverse(LStrip(Reverse(LStrip(s))))

\* services/tags.py normalize_tags: the trimmed, non-blank parts, each once
\* (the code returns them as a list sorted by lower-cased name).
normalize_tags(parts) == {TagStrip(parts[i]) : i \in DOMAIN parts} \ {""}

\* The canonical spelling _KNOWN_ITEM_TYPES gives a type name.
TypeCanon(t) ==
    CASE t = "movie" -> "Movie"
      [] t = "series" -> "Series"
      [] OTHER -> t

RECURSIVE DedupTypes(_, _)
DedupTypes(types, seen) ==
    IF types = <<>> THEN <<>>
    ELSE IF TypeCanon(Head(types)) \in seen THEN DedupTypes(Tail(types), seen)
    ELSE <<TypeCanon(Head(types))>>
            \o DedupTypes(Tail(types), seen \cup {TypeCanon(Head(types))})

\* services/items.py normalize_item_types: canonical names in request order,
\* each once.
normalize_item_types(raw_types) == DedupTypes(raw_types, {})

sanitize_start_index(value) == Max(value, 0)

sanitize_limit(value) ==
    IF value > ITEM_PAGE_FETCH_LIMIT THEN ITEM_PAGE_FETCH_LIMIT
    ELSE IF value < 0 THEN 0
    ELSE value

\* _parse_items_request: [early, state].  early: an include tag is missing
\* from a fresh tag cache and the handler answers at once with no items.
parse_items_request(req) ==
    LET include_tag_keys == {TagFold(t) : t \in normalize_tags(req.includeTags)}
        exclude_tag_keys == {TagFold(t) : t \in normalize_tags(req.excludeTags)}
        lookup == missing_include_tags(include_tag_keys)
        snapshot == IF include_tag_keys # {} THEN lookup.entry ELSE NoTagEntry
    IN  [early |-> include_tag_keys # {} /\ lookup.missing # {},
         state |->
            [include_types |-> normalize_item_types(req.types),
             include_tag_keys |-> include_tag_keys,
             exclude_tag_keys |-> exclude_tag_keys,
             excluded_types |-> IF req.excludeCollections
                                THEN COLLECTION_ITEM_TYPES ELSE {},
             title_query |-> StripText(req.titleQuery),
             sort_by |-> "SortName",
             sort_order |-> req.sortOrder,
             start_index |-> sanitize_start_index(req.startIndex),
             limit |-> sanitize_limit(req.limit),
             tag_cache_version |-> IF snapshot.present THEN snapshot.updated ELSE 0]]

build_prefetch_cache_key(state) ==
    [include_types |-> SeqToSet(state.include_types),
     include_tag_keys |-> state.include_tag_keys,
     exclude_tag_keys |-> state.exclude_tag_keys,
     excluded_types |-> state.excluded_types,
     title_query |-> state.title_query,
     sort_by |-> state.sort_by,
     sort_order |-> state.sort_order,
     tag_cache_version |-> state.tag_cache_version]

build_items_cache_key(state) ==
    [include_types |-> SeqToSet(state.include_types),
     include_tag_keys |-> state.include_tag_keys,
     exclude_tag_keys |-> state.exclude_tag_keys,
     excluded_types |-> state.excluded_types,
     title_query |-> state.title_query,
     sort_by |-> state.sort_by,
     sort_order |-> state.sort_order,
     tag_cache_version |-> state.tag_cache_version,
     start_index |-> state.start_index,
     limit |-> state.limit]

----
\* services/items_cache.py.  A cache is the sequence of its entries in
\* OrderedDict order (least recently used first); an entry carries its key.

CacheIndex(cache, key) ==
    IF \E i \in DOMAIN cache : cache[i].key = key
    THEN CHOOSE i \in DOMAIN cache : cache[i].key = key
    ELSE 0

CacheWithout(cache, key) == SelectSeq(cache, LAMBDA e : e.key # key)

\* while len(cache) > max_entries: cache.popitem(last=False)
RECURSIVE EvictIfNeeded(_, _)
EvictIfNeeded(cache, max_entries) ==
    IF Len(cache) > max_entries THEN EvictIfNeeded(Tail(cache), max_entries)
    ELSE cache

\* _is_expired with > in place of >=.
_is_expired_Strict(entry) == now - entry.stored_at > ITEM_QUERY_CACHE_TTL

_is_expired(entry) == now - entry.stored_at >= ITEM_QUERY_CACHE_TTL

_prefetch_is_expired(entry) == now - entry.stored_at >= ITEM_PREFETCH_CACHE_TTL

\* get_cached_response: [hit, entry, cache] (cache: the cache afterwards).
get_cached_response(cache, key) ==
    LET i == CacheIndex(cache, key)
    IN  IF i = 0 THEN [hit |-> FALSE, cache |-> cache]
        ELSE IF _is_expired(cache[i])
        THEN [hit |-> FALSE, cache |-> CacheWithout(cache, key)]
        ELSE [hit |-> TRUE, entry |-> cache[i],
              cache |-> Append(CacheWithout(cache, key), cache[i])]

set_cached_response(cache, key, response) ==
    EvictIfNeeded(
        Append(CacheWithout(cache, key),
               [key |-> key, response |-> response, stored_at |-> now]),
        ITEM_QUERY_CACHE_MAX_ENTRIES)

\* get_prefetch_cache_entry without move_to_end: a read leaves the order.
get_prefetch_cache_entry_NoTouch(cache, key) ==
    LET i == CacheIndex(cache, key)
    IN  IF i = 0 THEN [hit |-> FALSE, cache |-> cache]
        ELSE IF _prefetch_is_expired(cache[i])
        THEN [hit |-> FALSE, cache |-> CacheWithout(cache, key)]
        ELSE [hit |-> TRUE, entry |-> cache[i], cache |-> cache]

get_prefetch_cache_entry(cache, key) ==
    LET i == CacheIndex(cache, key)
    IN  IF i = 0 THEN [hit |-> FALSE, cache |-> cache]
        ELSE IF _prefetch_is_expired(cache[i])
        THEN [hit |-> FALSE, cache |-> CacheWithout(cache, key)]
        ELSE [hit |-> TRUE, entry |-> cache[i],
              cache |-> Append(CacheWithout(cache, key), cache[i])]

\* set_prefetch_cache_entry that stores the whole list.
set_prefetch_cache_entry_KeepAll(cache, key, matches, total_matches, complete) ==
    EvictIfNeeded(
        Append(CacheWithout(cache, key),
               [key |-> key,
                matches |-> matches,
                total_matches |-> total_matches,
                complete |-> complete,
                truncated |-> Len(matches) < total_matches,
                stored_at |-> now]),
        ITEM_PREFETCH_CACHE_MAX_ENTRIES)

set_prefetch_cache_entry(cache, key, matches, total_matches, complete) ==
    LET trimmed == Slice(matches, 0, ITEM_PREFETCH_CACHE_LIMIT)
    IN  EvictIfNeeded(
            Append(CacheWithout(cache, key),
                   [key |-> key,
                    matches |-> trimmed,
                    total_matches |-> total_matches,
                    complete |-> complete,
                    truncated |-> Len(trimmed) < total_matches,
                    stored_at |-> now]),
            ITEM_PREFETCH_CACHE_MAX_ENTRIES)

----
\* Prefetch jobs (routes/items.py).  jobs[id] is the ItemPrefetchJob with
\* job_id = id; NoTime stands for completed_at = None.  created_at, which
\* nothing reads, is left out.

NoTime == -1
NoJob == 0
NoError == "None"   \* job.error = None

LiveStatuses == {"pending", "running"}

IndexedJob(byKey, key) ==
    IF \E e \in byKey : e[1] = key
    THEN (CHOOSE e \in byKey : e[1] = key)[2]
    ELSE NoJob

\* ExpiredJobs without the test that completed_at is set.
ExpiredJobs_UnsetCountsAsOld(jobList, table) ==
    {id \in table : now - jobList[id].completed_at >= ITEM_PREFETCH_JOB_TTL}

\* The jobs _cleanup_prefetch_jobs_locked removes from the job table.
ExpiredJobs(jobList, table) ==
    {id \in table : /\ jobList[id].completed_at # NoTime
                    /\ now - jobList[id].completed_at >= ITEM_PREFETCH_JOB_TTL}

\* _cleanup_prefetch_jobs_locked: [table, byKey] afterwards.
cleanup_prefetch_jobs_locked(jobList, table, byKey) ==
    LET expired == ExpiredJobs(jobList, table)
    IN  [table |-> table \ expired,
         byKey |-> {e \in byKey : \A id \in expired : jobList[id].key # e[1]}]

\* ReusesExisting without the test of the job's status.
ReusesExisting_AnyStatus(jobList, existing) == existing # NoJob

\* Whether _ensure_prefetch_job returns the job the index holds for the key.
ReusesExisting(jobList, existing) ==
    existing # NoJob /\ jobList[existing].status \in LiveStatuses

\* _ensure_prefetch_job: [job_id, created, jobs, table, byKey].
ensure_prefetch_job(state) ==
    LET key == build_prefetch_cache_key(state)
        cleaned == cleanup_prefetch_jobs_locked(jobs, jobTable, jobsByKey)
        existing == IndexedJob(cleaned.byKey, key)
        job_id == Len(jobs) + 1
    IN  IF ReusesExisting(jobs, existing)
        THEN [job_id |-> existing, created |-> FALSE, jobs |-> jobs,
              table |-> cleaned.table, byKey |-> cleaned.byKey]
        ELSE [job_id |-> job_id, created |-> TRUE,
              jobs |-> Append(jobs, [key |-> key,
                                     state |-> state,
                                     status |-> "pending",
                                     total_matches |-> 0,
                                     error |-> NoError,
                                     completed_at |-> NoTime]),
              table |-> cleaned.table \cup {job_id},
              byKey |-> {e \in cleaned.byKey : e[1] # key} \cup {<<key, job_id>>}]

\* IndexAfterFinish with the index left as it is.
IndexAfterFinish_Keep(byKey, id) == byKey

\* The index after the finally block of _run_prefetch_job for job id.
IndexAfterFinish(byKey, id) == {e \in byKey : e[1] # jobs[id].key}

\* The arguments _run_prefetch_job gives _collect_matches.
JobScanParams(job, bad) ==
    [include_tag_keys |-> job.state.include_tag_keys,
     exclude_tag_keys |-> job.state.exclude_tag_keys,
     excluded_types |-> job.state.excluded_types,
     title_query |-> job.state.title_query,
     sort_by |-> job.state.sort_by,
     sort_order |-> job.state.sort_order,
     limit |-> AGGREGATE_FETCH_LIMIT,
     start_index |-> 0,
     max_matches |-> NoTarget,
     bad |-> bad]

\* The locals of a job's thread; stored records that the thread has called
\* set_prefetch_cache_entry.
NoLocal == [matches |-> <<>>, complete |-> FALSE, stored |-> FALSE]

\* job.status is written by the job's thread without the lock, and a handler
\* reads it after _ensure_prefetch_job has returned: the read gives the status
\* the job has by then, any status its thread can still reach from pc.
LaterStatuses(status, pc) ==
    {status} \cup
    CASE pc = "start" -> {"running", "completed", "failed"}
      [] pc = "scan" -> {"completed", "failed"}
      [] pc \in {"store", "mark"} -> {"completed"}
      [] pc \in {"except", "error"} -> {"failed"}
      [] OTHER -> {}

\* The statuses a handler may read from the job _ensure_prefetch_job returned.
JobStatusReads(ens) ==
    IF ens.created THEN LaterStatuses("pending", "start")
    ELSE IF ens.job_id \in DOMAIN jobs
    THEN LaterStatuses(jobs[ens.job_id].status, jobPc[ens.job_id])
    ELSE {"pending"}

\* A step that is no request handler: no request, no response.
NoHandler ==
    /\ lastReq' = [handler |-> "none"]
    /\ lastResp' = [code |-> 0]
    /\ lastObs' = [path |-> "none", fetches |-> <<>>]

\* job.status = "running"
JobStart(id) ==
    /\ id \in DOMAIN jobs /\ jobPc[id] = "start"
    /\ jobs' = [jobs EXCEPT ![id].status = "running"]
    /\ jobPc' = [jobPc EXCEPT ![id] = "scan"]
    /\ NoHandler
    /\ UNCHANGED <<remote, tagCache, tagRefresh, tagReqs, now, queryCache, prefetchCache, jobTable,
                   jobsByKey, jobLocal>>

\* _collect_matches and sort_items_for_response; an exception goes to "except".
JobScan(id, bad) ==
    /\ id \in DOMAIN jobs /\ jobPc[id] = "scan"
    /\ LET r == collect_matches(JobScanParams(jobs[id], bad))
       IN  IF r.error
           THEN /\ jobPc' = [jobPc EXCEPT ![id] = "except"]
                /\ UNCHANGED jobLocal
           ELSE /\ jobPc' = [jobPc EXCEPT ![id] = "store"]
                /\ jobLocal' = [jobLocal EXCEPT ![id] =
                      [matches |-> sort_items_for_response(
                                       r.matched, jobs[id].state.sort_by,
                                       jobs[id].state.sort_order),
                       complete |-> r.complete,
                       stored |-> FALSE]]
    /\ NoHandler
    /\ UNCHANGED <<remote, tagCache, tagRefresh, tagReqs, now, queryCache, prefetchCache, jobs, jobTable,
                   jobsByKey>>

\* JobStore that goes on to mark the job without writing the entry.
JobStore_NoWrite(id) ==
    /\ id \in DOMAIN jobs /\ jobPc[id] = "store"
    /\ jobPc' = [jobPc EXCEPT ![id] = "mark"]
    /\ jobLocal' = [jobLocal EXCEPT ![id].stored = TRUE]
    /\ NoHandler
    /\ UNCHANGED <<remote, tagCache, tagRefresh, tagReqs, now, queryCache, prefetchCache, jobs,
                   jobTable, jobsByKey>>

\* set_prefetch_cache_entry(job.key, sorted_matches, total_matches, is_complete)
JobStore(id) ==
    /\ id \in DOMAIN jobs /\ jobPc[id] = "store"
    /\ prefetchCache' = set_prefetch_cache_entry(
            prefetchCache, jobs[id].key, jobLocal[id].matches,
            Len(jobLocal[id].matches), jobLocal[id].complete)
    /\ jobPc' = [jobPc EXCEPT ![id] = "mark"]
    /\ jobLocal' = [jobLocal EXCEPT ![id].stored = TRUE]
    /\ NoHandler
    /\ UNCHANGED <<remote, tagCache, tagRefresh, tagReqs, now, queryCache, jobs, jobTable, jobsByKey>>

\* job.total_matches = total_matches; job.status = "completed"
JobMarkCompleted(id) ==
    /\ id \in DOMAIN jobs /\ jobPc[id] = "mark"
    /\ jobs' = [jobs EXCEPT ![id].total_matches = Len(jobLocal[id].matches),
                            ![id].status = "completed"]
    /\ jobPc' = [jobPc EXCEPT ![id] = "finally"]
    /\ NoHandler
    /\ UNCHANGED <<remote, tagCache, tagRefresh, tagReqs, now, queryCache, prefetchCache, jobTable,
                   jobsByKey, jobLocal>>

\* JobMarkFailed with the exception swallowed: the job is marked completed.
JobMarkFailed_Swallowed(id) ==
    /\ id \in DOMAIN jobs /\ jobPc[id] = "except"
    /\ jobs' = [jobs EXCEPT ![id].status = "completed"]
    /\ jobPc' = [jobPc EXCEPT ![id] = "finally"]
    /\ NoHandler
    /\ UNCHANGED <<remote, tagCache, tagRefresh, tagReqs, now, queryCache, prefetchCache, jobTable,
                   jobsByKey, jobLocal>>

\* except Exception: job.status = "failed".  The job's fields are written
\* without the lock, one statement at a time.
JobMarkFailed(id) ==
    /\ id \in DOMAIN jobs /\ jobPc[id] = "except"
    /\ jobs' = [jobs EXCEPT ![id].status = "failed"]
    /\ jobPc' = [jobPc EXCEPT ![id] = "error"]
    /\ NoHandler
    /\ UNCHANGED <<remote, tagCache, tagRefresh, tagReqs, now, queryCache, prefetchCache, jobTable,
                   jobsByKey, jobLocal>>

\* job.error = str(exc), the statement after job.status = "failed".
JobRecordError(id) ==
    /\ id \in DOMAIN jobs /\ jobPc[id] = "error"
    /\ jobs' = [jobs EXCEPT ![id].error = "RemoteError"]
    /\ jobPc' = [jobPc EXCEPT ![id] = "finally"]
    /\ NoHandler
    /\ UNCHANGED <<remote, tagCache, tagRefresh, tagReqs, now, queryCache, prefetchCache, jobTable,
                   jobsByKey, jobLocal>>

\* finally: job.completed_at = time.time(); with the lock, pop job.key from
\* _ITEM_PREFETCH_JOBS_BY_KEY.  The thread's locals end with it.
JobFinally(id) ==
    /\ id \in DOMAIN jobs /\ jobPc[id] = "finally"
    /\ jobs' = [jobs EXCEPT ![id].completed_at = now]
    /\ jobsByKey' = IndexAfterFinish(jobsByKey, id)
    /\ jobPc' = [jobPc EXCEPT ![id] = "done"]
    /\ jobLocal' = [jobLocal EXCEPT ![id] = [NoLocal EXCEPT !.stored = jobLocal[id].stored]]
    /\ NoHandler
    /\ UNCHANGED <<remote, tagCache, tagRefresh, tagReqs, now, queryCache, prefetchCache, jobTable>>

----
\* Request handlers (routes/items.py).

Response200(items, total_record_count, total_match_count, state) ==
    [code |-> 200,
     Items |-> items,
     TotalRecordCount |-> total_record_count,
     TotalMatchCount |-> total_match_count,
     ReturnedCount |-> Len(items),
     SortBy |-> state.sort_by,
     SortOrder |-> state.sort_order]

Response202(job_id, status) == [code |-> 202, jobId |-> job_id, status |-> status]

\* An exception that leaves the handler: the framework answers 500.
Response500 == [code |-> 500]

NoRequest == [handler |-> "none"]
NoResponse == [code |-> 0]
NoObs == [path |-> "none", fetches |-> <<>>]

\* _try_serve_prefetch_cache: [served, items, total_matches].
try_serve_prefetch_cache(state, got) ==
    IF ~got.hit \/ ~got.entry.complete THEN [served |-> FALSE]
    ELSE IF state.limit <= 0
    THEN [served |-> TRUE, items |-> <<>>, total_matches |-> got.entry.total_matches]
    ELSE IF state.start_index + state.limit > Len(got.entry.matches)
    THEN [served |-> FALSE]
    ELSE [served |-> TRUE,
          items |-> Slice(got.entry.matches, state.start_index,
                          state.start_index + state.limit),
          total_matches |-> got.entry.total_matches]

\* NeedsPrefetchJob that looks only for an entry, not at what it holds.
NeedsPrefetchJob_AnyEntry(state, got) ==
    /\ state.start_index >= ITEM_PREFETCH_TRIGGER_START_INDEX
    /\ ~got.hit

\* The deep-offset test of api_items that hands the request to a job.
NeedsPrefetchJob(state, got) ==
    /\ state.start_index >= ITEM_PREFETCH_TRIGGER_START_INDEX
    /\ \/ ~got.hit
       \/ ~got.entry.complete
       \/ state.start_index + state.limit > Len(got.entry.matches)

\* The remote offset at which _filter_and_collect_items starts its scan.
ScanStartIndex(state) == state.start_index

\* The arguments _filter_and_collect_items gives _collect_matches.
RequestScanParams(state, bad) ==
    [include_tag_keys |-> state.include_tag_keys,
     exclude_tag_keys |-> state.exclude_tag_keys,
     excluded_types |-> state.excluded_types,
     title_query |-> state.title_query,
     sort_by |-> state.sort_by,
     sort_order |-> state.sort_order,
     limit |-> Max(state.limit, ITEM_PAGE_FETCH_LIMIT),
     start_index |-> ScanStartIndex(state),
     max_matches |-> state.start_index + state.limit,
     bad |-> bad]

\* _filter_and_collect_items after the scan r succeeded: the matches are
\* sorted, stored as a prefetch entry when the scan was complete, and sliced.
collected_items(state, cache, r, sorted_matches) ==
    [error |-> FALSE,
     items |-> Slice(sorted_matches, state.start_index,
                     state.start_index + state.limit),
     total_matches |-> Len(sorted_matches),
     complete |-> r.complete,
     fetches |-> r.fetches,
     prefetch |-> IF r.complete
                  THEN set_prefetch_cache_entry(
                           cache, build_prefetch_cache_key(state),
                           sorted_matches, Len(sorted_matches), TRUE)
                  ELSE cache]

\* _filter_and_collect_items, given the result r of _collect_matches.
filter_and_collect_scanned(state, cache, r) ==
    IF r.error
    THEN [error |-> TRUE, fetches |-> r.fetches, prefetch |-> cache]
    ELSE collected_items(state, cache, r,
                         sort_items_for_response(r.matched, state.sort_by,
                                                 state.sort_order))

\* _filter_and_collect_items:
\* [error, items, total_matches, complete, fetches, prefetch] (prefetch: the
\* prefetch cache afterwards).
filter_and_collect_items(state, bad, cache) ==
    IF state.limit <= 0
    THEN [error |-> FALSE, items |-> <<>>, total_matches |-> 0, complete |-> TRUE,
          fetches |-> <<>>, prefetch |-> cache]
    ELSE filter_and_collect_scanned(state, cache,
                                    collect_matches(RequestScanParams(state, bad)))

\* The items _fetch_items_from_server keeps of the page the remote returned.
ServerPageItems(raw_items) ==
    [i \in DOMAIN raw_items |-> serialize_item_for_response(raw_items[i])]

\* _fetch_items_from_server, given the remote's payload.
fetched_page(state, payload, serialized) ==
    [error |-> FALSE,
     items |-> serialized,
     total_count |-> IF payload.TotalRecordCount # NoTotal
                     THEN payload.TotalRecordCount ELSE Len(serialized),
     fetches |-> <<<<state.start_index, state.limit>>>>]

\* _fetch_items_from_server, given the remote's payload.
fetch_items_from_payload(state, payload) ==
    fetched_page(state, payload, ServerPageItems(payload.Items))

\* _fetch_items_from_server: [error, items, total_count, fetches].
fetch_items_from_server(state, bad) ==
    IF state.limit <= 0
    THEN [error |-> FALSE, items |-> <<>>, total_count |-> 0, fetches |-> <<>>]
    ELSE IF state.start_index \in bad
    THEN [error |-> TRUE, fetches |-> <<<<state.start_index, state.limit>>>>]
    ELSE fetch_items_from_payload(
             state,
             page_items(state.start_index, state.limit, state.title_query,
                        state.excluded_types, state.sort_by, state.sort_order))

NoEnsure == [job_id |-> NoJob, created |-> FALSE, jobs |-> jobs,
             table |-> jobTable, byKey |-> jobsByKey]

\* What api_items did: [resp, path, fetches, state, q, pf, job].  path names
\* the branch that answered; q, pf: the two caches afterwards; job: the
\* result of _ensure_prefetch_job when it was called.
Outcome(resp, path, fetches, state, q, pf, job) ==
    [resp |-> resp, path |-> path, fetches |-> fetches, state |-> state,
     q |-> q, pf |-> pf, job |-> job]

\* set_cached_response(cache_key, response_payload); return it.
Cached200(state, cache_key, q, pf, path, fetches, resp) ==
    Outcome(resp, path, fetches, state, set_cached_response(q, cache_key, resp),
            pf, NoEnsure)

delegate_to_server(state) ==
    state.include_tag_keys = {} /\ state.exclude_tag_keys = {}

\* api_items, the branch delegate_to_server; f: _fetch_items_from_server.
api_items_fetched(state, cache_key, q, pf, f) ==
    IF f.error
    THEN Outcome(Response500, "error", f.fetches, state, q, pf, NoEnsure)
    ELSE Cached200(state, cache_key, q, pf, "server", f.fetches,
                   Response200(f.items, f.total_count, f.total_count, state))

\* api_items_scanned that stores the answer of a failed scan as well.
api_items_scanned_CacheError(state, cache_key, q, pf, c) ==
    IF c.error
    THEN Cached200(state, cache_key, q, pf, "error", c.fetches, Response500)
    ELSE Cached200(state, cache_key, q, c.prefetch, "scan", c.fetches,
                   Response200(c.items, c.total_matches, c.total_matches, state))

\* api_items, the branch of the local scan; c: _filter_and_collect_items.
api_items_scanned(state, cache_key, q, pf, c) ==
    IF c.error
    THEN Outcome(Response500, "error", c.fetches, state, q, pf, NoEnsure)
    ELSE Cached200(state, cache_key, q, c.prefetch, "scan", c.fetches,
                   Response200(c.items, c.total_matches, c.total_matches, state))

\* api_items_deferred that stores its 202 answer in the query cache.
api_items_deferred_Cached(state, q, pf, ens) ==
    Outcome(Response202(ens.job_id, ens.jobs[ens.job_id].status), "job", <<>>,
            state,
            set_cached_response(q, build_items_cache_key(state),
                                Response202(ens.job_id, ens.jobs[ens.job_id].status)),
            pf, ens)

\* api_items, the 202 branch; ens: _ensure_prefetch_job.  The answer carries
\* the job's status as _ensure_prefetch_job left it; ApiItems puts in its
\* place what the later read of job.status gives.
api_items_deferred(state, q, pf, ens) ==
    Outcome(Response202(ens.job_id, ens.jobs[ens.job_id].status), "job", <<>>,
            state, q, pf, ens)

\* api_items after the query cache missed; q: the query cache after the
\* read, pget: the read of the prefetch cache.
api_items_missed(state, cache_key, q, pget, cached_slice, bad) ==
    IF cached_slice.served
    THEN Cached200(state, cache_key, q, pget.cache, "prefetch", <<>>,
                   Response200(cached_slice.items, cached_slice.total_matches,
                               cached_slice.total_matches, state))
    ELSE IF ~delegate_to_server(state) /\ NeedsPrefetchJob(state, pget)
    THEN api_items_deferred(state, q, pget.cache, ensure_prefetch_job(state))
    ELSE IF delegate_to_server(state)
    THEN api_items_fetched(state, cache_key, q, pget.cache,
                           fetch_items_from_server(state, bad))
    ELSE api_items_scanned(state, cache_key, q, pget.cache,
                           filter_and_collect_items(state, bad, pget.cache))

\* api_items from the query cache lookup on; qget, pget: the reads of the
\* two caches (the prefetch cache is read only after a miss).
api_items_lookup(state, cache_key, qget, pget, bad) ==
    IF qget.hit
    THEN Outcome(qget.entry.response, "query", <<>>, state, qget.cache,
                 prefetchCache, NoEnsure)
    ELSE api_items_missed(state, cache_key, qget.cache, pget,
                          IF delegate_to_server(state) THEN [served |-> FALSE]
                          ELSE try_serve_prefetch_cache(state, pget),
                          bad)

\* api_items, given the parsed request.
api_items_parsed(parsed, bad) ==
    IF parsed.early
    THEN Outcome(Response200(<<>>, 0, 0, parsed.state), "early", <<>>, parsed.state,
                 queryCache, prefetchCache, NoEnsure)
    ELSE api_items_lookup(
             parsed.state, build_items_cache_key(parsed.state),
             get_cached_response(queryCache, build_items_cache_key(parsed.state)),
             get_prefetch_cache_entry(prefetchCache,
                                      build_prefetch_cache_key(parsed.state)),
             bad)

\* api_items: its Outcome.
api_items(req, bad) == api_items_parsed(parse_items_request(req), bad)

\* The job tables after a handler that may have called _ensure_prefetch_job;
\* a new job's thread is started.
ApplyEnsure(ens) ==
    /\ jobs' = ens.jobs
    /\ jobTable' = ens.table
    /\ jobsByKey' = ens.byKey
    /\ jobPc' = IF ens.created THEN Append(jobPc, "start") ELSE jobPc
    /\ jobLocal' = IF ens.created THEN Append(jobLocal, NoLocal) ELSE jobLocal

\* POST /api/items, given the Outcome of api_items.
ApiItemsDone(req, out) ==
    /\ ApplyEnsure(out.job)
    /\ queryCache' = out.q
    /\ prefetchCache' = out.pf
    /\ lastReq' = [handler |-> "items", req |-> req]
    /\ IF out.path = "job"
       THEN \E status_read \in JobStatusReads(out.job) :
                lastResp' = Response202(out.job.job_id, status_read)
       ELSE lastResp' = out.resp
    /\ lastObs' = [path |-> out.path, fetches |-> out.fetches, state |-> out.state,
                   job |-> out.job.job_id, created |-> out.job.created]
    /\ UNCHANGED <<remote, tagCache, tagRefresh, tagReqs, now>>

\* POST /api/items
ApiItems(req, bad) == ApiItemsDone(req, api_items(req, bad))

\* POST /api/items/prefetch
ApiItemsPrefetch(req) ==
    \E status_read \in
            IF parse_items_request(req).early THEN {"pending"}
            ELSE JobStatusReads(ensure_prefetch_job(parse_items_request(req).state)) :
    LET parsed == parse_items_request(req)
        ens == ensure_prefetch_job(parsed.state)
        job == [ens.jobs[ens.job_id] EXCEPT !.status = status_read]
        pget == get_prefetch_cache_entry(prefetchCache, job.key)
    IN  /\ lastReq' = [handler |-> "prefetch", req |-> req]
        /\ IF parsed.early
           THEN /\ lastResp' = Response200(<<>>, 0, 0, parsed.state)
                /\ lastObs' = [path |-> "early", fetches |-> <<>>, state |-> parsed.state,
                               job |-> NoJob, created |-> FALSE]
                /\ UNCHANGED <<jobs, jobTable, jobsByKey, jobPc, jobLocal, prefetchCache>>
           ELSE /\ ApplyEnsure(ens)
                /\ prefetchCache' = pget.cache
                /\ lastResp' =
                     [code |-> IF job.status = "completed" THEN 200 ELSE 202,
                      jobId |-> ens.job_id,
                      status |-> job.status,
                      availableMatches |-> IF pget.hit THEN Len(pget.entry.matches) ELSE 0,
                      totalMatches |-> IF pget.hit THEN pget.entry.total_matches
                                       ELSE job.total_matches]
                /\ lastObs' = [path |-> "job", fetches |-> <<>>, state |-> parsed.state,
                               job |-> ens.job_id, created |-> ens.created]
        /\ UNCHANGED <<remote, tagCache, tagRefresh, tagReqs, now, queryCache>>

\* GET /api/items/prefetch/<job_id>
ApiItemsPrefetchStatus(job_id) ==
    LET cleaned == cleanup_prefetch_jobs_locked(jobs, jobTable, jobsByKey)
        found == job_id \in cleaned.table
        job == jobs[job_id]
        pget == get_prefetch_cache_entry(prefetchCache, job.key)
    IN  /\ job_id \in DOMAIN jobs
        /\ jobTable' = cleaned.table
        /\ jobsByKey' = cleaned.byKey
        /\ lastReq' = [handler |-> "status", job_id |-> job_id]
        /\ lastObs' = [path |-> "status", fetches |-> <<>>]
        /\ IF ~found
           THEN /\ lastResp' = [code |-> 404]
                /\ UNCHANGED prefetchCache
           ELSE /\ prefetchCache' = pget.cache
                /\ lastResp' =
                     [code |-> 200,
                      jobId |-> job_id,
                      status |-> job.status,
                      totalMatches |-> IF pget.hit THEN pget.entry.total_matches
                                       ELSE job.total_matches,
                      availableMatches |-> IF pget.hit THEN Len(pget.entry.matches) ELSE 0,
                      complete |-> IF pget.hit THEN pget.entry.complete ELSE FALSE,
                      completedAt |-> job.completed_at,
                      error |-> job.error]
        /\ UNCHANGED <<remote, tagCache, tagRefresh, tagReqs, now, queryCache, jobs, jobPc, jobLocal>>

\* The clock advances.
Tick ==
    /\ now < MaxTime
    /\ now' = now + 1
    /\ NoHandler
    /\ UNCHANGED <<remote, tagCache, tagRefresh, tagReqs, queryCache, prefetchCache, jobs, jobTable,
                   jobsByKey, jobPc, jobLocal>>

----
\* Initial states.

Item(id, kind) ==
    [Id |-> id, Type |-> kind.Type, Name |-> kind.Name,
     SortName |-> kind.SortName, Tags |-> kind.Tags]

KeepGa == [Type |-> "Movie", Name |-> <<"G", "a">>, SortName |-> <<>>,
           Tags |-> <<"Keep">>]
KeepB == [Type |-> "Movie", Name |-> <<"b">>, SortName |-> <<"b">>,
          Tags |-> <<"keep", "Keep">>]
PlainAg == [Type |-> "Movie", Name |-> <<"a", "g">>, SortName |-> <<"a", "g">>,
            Tags |-> <<"Drop">>]

ScanKinds == {KeepGa, KeepB, PlainAg}

\* Every catalog of at most n items of the given kinds; ids follow position.
Catalogs(kinds, n) ==
    UNION {{[i \in 1..len |-> Item(i, f[i])] : f \in [1..len -> kinds]} : len \in 0..n}

\* Remotes that apply ExcludeItemTypes and the sort parameters.
Remotes(catalogs, caps, searches, totals) ==
    {[catalog |-> c, cap |-> k, search |-> s, total |-> t,
      excludes |-> TRUE, sorts |-> TRUE] :
        c \in catalogs, k \in caps, s \in searches, t \in totals}

\* Uncapped remotes that may ignore ExcludeItemTypes or the sort parameters.
LaxRemotes(catalogs, excludes, sorts) ==
    {[catalog |-> c, cap |-> 0, search |-> TRUE, total |-> TRUE,
      excludes |-> e, sorts |-> o] :
        c \in catalogs, e \in excludes, o \in sorts}

InitWith(remotes, tagCaches) ==
    /\ remote \in remotes
    /\ tagCache \in tagCaches
    /\ tagRefresh = NoRefresh
    /\ tagReqs = <<>>
    /\ now = 0
    /\ queryCache = <<>>
    /\ prefetchCache = <<>>
    /\ jobs = <<>>
    /\ jobTable = {}
    /\ jobsByKey = {}
    /\ jobPc = <<>>
    /\ jobLocal = <<>>
    /\ lastReq = NoRequest
    /\ lastResp = NoResponse
    /\ lastObs = NoObs

Request(include, exclude, collections, title, order, start, limit) ==
    [types |-> <<>>, includeTags |-> include, excludeTags |-> exclude,
     excludeCollections |-> collections, titleQuery |-> title,
     sortOrder |-> order, startIndex |-> start, limit |-> limit]

----
\* Specification Scan: one /api/items request against any small catalog.

ScanRequests ==
    {Request(inc, <<>>, FALSE, title, "Ascending", start, limit) :
        inc \in {<<>>, <<"Keep">>}, title \in {<<>>, <<"g">>},
        start \in 0..MaxStart, limit \in 1..ITEM_PAGE_FETCH_LIMIT}

InitScan ==
    InitWith(Remotes(Catalogs(ScanKinds, MaxItems), 0..MaxCap, BOOLEAN, BOOLEAN),
             {NoTagEntry})

NextScan ==
    \E req \in ScanRequests :
        /\ lastReq = NoRequest
        /\ ApiItems(req, {})

SpecScan == InitScan /\ [][NextScan]_vars

----
\* Reference values the claims compare the program against.

\* The sorted list of all items of the catalog that match a request's filters.
AllMatches(state) ==
    LET Matches(it) ==
            /\ it.Type \notin state.excluded_types
            /\ item_matches_filters(it, state.include_tag_keys, state.exclude_tag_keys,
                                    casefold(state.title_query))
        kept == SelectSeq(remote.catalog, Matches)
    IN  sort_items_for_response([i \in DOMAIN kept |-> serialize_item_for_response(kept[i])],
                                state.sort_by, state.sort_order)

\* A remote that returns pages of the requested size and reports its totals.
UncappedRemote == remote.cap = 0 /\ remote.total /\ remote.search

ItemsAnswered == lastReq.handler = "items" /\ lastResp.code = 200

----
\* Claims checked under SpecScan.

\* C1: a filtered request (startIndex = k, limit = m) answered by a scan
\* returns entries k .. k+m-1 of the sorted list of all matches and reports
\* TotalMatchCount = N.  Stated for a remote that does not cap its pages and
\* reports its totals.
C1_WindowIsSliceOfAllMatches ==
    (ItemsAnswered /\ lastObs.path = "scan" /\ UncappedRemote) =>
        LET all == AllMatches(lastObs.state)
        IN  /\ lastResp.Items = Slice(all, lastObs.state.start_index,
                                      lastObs.state.start_index + lastObs.state.limit)
            /\ lastResp.TotalMatchCount = Len(all)

\* C3: against a remote that caps every page at C and reports a larger
\* TotalRecordCount, every fetch submitted after the first page was consumed
\* asks for C items and TotalMatchCount is the number of matches in the
\* catalog.  Stated for scans from offset 0 that cannot stop early (the
\* catalog holds fewer matches than the target count).
C3_CapDiscoveredAndTotalCorrect ==
    LET st == lastObs.state
        all == AllMatches(st)
        listed == RemoteList(st.title_query, st.excluded_types, st.sort_by, st.sort_order)
    IN  (/\ ItemsAnswered /\ lastObs.path = "scan"
         /\ remote.cap > 0 /\ remote.total /\ remote.search
         /\ remote.cap < Len(listed)
         /\ remote.cap < InitialFetchLimit(RequestScanParams(st, {}))
         /\ st.start_index = 0
         /\ Len(all) < st.start_index + st.limit) =>
            /\ \A i \in DOMAIN lastObs.fetches :
                   i > MaxPrefetchPages(RequestScanParams(st, {}))
                       => lastObs.fetches[i][2] = remote.cap
            /\ lastResp.TotalMatchCount = Len(all)

\* C6: every prefetch cache entry stored complete holds, in sort order, all
\* items of the scope that match its key's filters, up to the retention
\* bound.  Stated for an uncapped remote.
C6_CompleteEntryIsFullScan ==
    UncappedRemote =>
        \A i \in DOMAIN prefetchCache :
            prefetchCache[i].complete =>
                prefetchCache[i].matches =
                    Slice(AllMatches(prefetchCache[i].key), 0, ITEM_PREFETCH_CACHE_LIMIT)

\* C10: every item of a 200 response to a request with a title query
\* contains the query, case-insensitively, in its Name or SortName.
C10_TitleQueryHoldsOfEveryItem ==
    (ItemsAnswered /\ lastReq.req.titleQuery # <<>>) =>
        \A i \in DOMAIN lastResp.Items :
            TitleMatches(lastResp.Items[i], casefold(lastReq.req.titleQuery))

----
\* Specification Jobs: the prefetch job manager under concurrent
\* POST /api/items/prefetch and status requests and job threads.

JobRequests ==
    {Request(<<"Keep">>, <<>>, FALSE, <<>>, "Ascending",
             ITEM_PREFETCH_TRIGGER_START_INDEX, 1),
     Request(<<>>, <<"Drop">>, FALSE, <<>>, "Ascending",
             ITEM_PREFETCH_TRIGGER_START_INDEX, 1)}

\* The start offsets at which a page fetch of a job may fail.
FailChoices == {{}, {0}}

JobsCatalog == <<Item(1, KeepGa), Item(2, PlainAg)>>

InitJobs == InitWith(Remotes({JobsCatalog}, {0}, {TRUE}, {TRUE}), {NoTagEntry})

JobStep(id) ==
    \/ JobStart(id)
    \/ \E bad \in FailChoices : JobScan(id, bad)
    \/ JobStore(id)
    \/ JobMarkCompleted(id)
    \/ JobMarkFailed(id)
    \/ JobRecordError(id)
    \/ JobFinally(id)

NextJobs ==
    \/ \E req \in JobRequests : ApiItemsPrefetch(req) /\ Len(jobs') <= MaxJobs
    \/ \E id \in 1..MaxJobs : JobStep(id)
    \/ \E id \in 1..MaxJobs : ApiItemsPrefetchStatus(id)

SpecJobs == InitJobs /\ [][NextJobs]_vars

----
\* Specification Retention: the job manager with the clock, for one prefetch
\* key.

RetentionRequests ==
    {Request(<<"Keep">>, <<>>, FALSE, <<>>, "Ascending",
             ITEM_PREFETCH_TRIGGER_START_INDEX, 1)}

NextRetention ==
    \/ \E req \in RetentionRequests : ApiItemsPrefetch(req) /\ Len(jobs') <= MaxJobs
    \/ \E id \in 1..MaxJobs : JobStep(id)
    \/ \E id \in 1..MaxJobs : ApiItemsPrefetchStatus(id)
    \/ Tick

SpecRetention == InitJobs /\ [][NextRetention]_vars

----
\* Claims checked under SpecJobs (C7, C9) and SpecRetention (C8).

FinishedStatuses == {"completed", "failed"}

\* The retention window of a finished job has passed.
RetentionPassed(id) ==
    /\ jobs[id].completed_at # NoTime
    /\ now - jobs[id].completed_at >= ITEM_PREFETCH_JOB_TTL

\* The jobs ever created for a prefetch key.
KeyJobs(key) == {id \in DOMAIN jobs : jobs[id].key = key}

\* The last step was a handler that looked a job up or called ensure-job.
JobLookupAnswered ==
    \/ lastReq.handler = "status"
    \/ lastReq.handler = "prefetch" /\ lastObs.path = "job"

C7_FailedJobState ==
    /\ \A id \in DOMAIN jobs :
          /\ jobPc[id] = "except" => ~jobLocal[id].stored
          /\ jobs[id].status = "failed" =>
                /\ jobPc[id] \in {"finally", "done"} => jobs[id].error # NoError
                /\ ~jobLocal[id].stored
                /\ jobPc[id] \in {"error", "finally", "done"}
    /\ lastResp.code # 500
    /\ (/\ lastReq.handler = "status"
        /\ lastResp.code = 200
        /\ jobs[lastReq.job_id].status = "failed") =>
            lastResp.status = "failed"

C7_FailedJobStep ==
    \A id \in DOMAIN jobs :
        /\ (jobPc[id] = "scan" /\ jobPc'[id] = "except") =>
              prefetchCache' = prefetchCache
        /\ (jobPc[id] = "except" /\ jobPc'[id] # "except") =>
              /\ jobs'[id].status = "failed"
              /\ prefetchCache' = prefetchCache
        /\ (jobPc[id] = "error" /\ jobPc'[id] # "error") =>
              /\ jobs'[id].status = "failed"
              /\ jobs'[id].error # NoError
              /\ prefetchCache' = prefetchCache
        /\ jobs[id].status = "failed" =>
              /\ jobs'[id].status = "failed"
              /\ jobs[id].error # NoError => jobs'[id].error = jobs[id].error
        /\ (/\ lastReq'.handler = "status" /\ lastReq'.job_id = id
            /\ lastResp'.code = 200
            /\ jobs[id].status = "failed" /\ jobPc[id] \in {"finally", "done"}) =>
              lastResp'.error = jobs[id].error

\* C7: a job whose scan raised ends in status failed with the error text on
\* the job and stays so; that job writes no prefetch cache entry; no request
\* is answered with an error because of it, and a status lookup of the job
\* reports status failed, with the recorded error once the job's thread has
\* left its except block.
C7_JobFailureRecordedNotRaised ==
    []C7_FailedJobState /\ [][C7_FailedJobStep]_vars

C7_Witness ==
    /\ lastReq.handler = "status"
    /\ lastResp.code = 200
    /\ lastResp.status = "failed"
    /\ lastResp.error # NoError
    /\ jobPc[lastReq.job_id] = "done"

\* The moves of a job's status that the state machine allows.
StatusMoves ==
    {<<"pending", "running">>, <<"running", "completed">>,
     <<"running", "failed">>}

\* One step keeps job id on the state machine: its status moves forward only,
\* and the job leaves the job table only when its retention window has passed.
JobOnStateMachine(id) ==
    /\ jobs'[id].status # jobs[id].status =>
          <<jobs[id].status, jobs'[id].status>> \in StatusMoves
    /\ jobs[id].status \in FinishedStatuses =>
          /\ jobs'[id].status = jobs[id].status
          /\ jobs'[id].total_matches = jobs[id].total_matches
    /\ (id \in jobTable /\ id \notin jobTable') => RetentionPassed(id)

C29_Step ==
    /\ \A id \in DOMAIN jobs' \ DOMAIN jobs : jobs'[id].status = "pending"
    /\ \A id \in DOMAIN jobs :
          /\ JobOnStateMachine(id)
          /\ jobs[id].status \in FinishedStatuses =>
                jobs'[id].error = jobs[id].error

\* C29: a job starts pending and its status only moves pending -> running ->
\* completed or failed, never backwards nor between completed and failed;
\* once the status is completed or failed, the job's status, total_matches
\* and error never change; a job leaves the job table only by the removal of
\* jobs whose retention window has passed.
C29_StatusForwardThenFrozen == [][C29_Step]_vars

\* C8: a job is in the job table from its creation until
\* ITEM_PREFETCH_JOB_TTL after its completion time, and always while it is
\* pending or running; after a job lookup or an ensure-job call no job whose
\* retention window has passed is left in the table, and a status request
\* answers 404 exactly for such a job.
C8_RetainedUntilTtlThenRemoved ==
    /\ \A id \in DOMAIN jobs :
          /\ ~RetentionPassed(id) => id \in jobTable
          /\ jobs[id].status \in LiveStatuses =>
                id \in jobTable /\ jobs[id].completed_at = NoTime
    /\ JobLookupAnswered =>
          \A id \in DOMAIN jobs : RetentionPassed(id) => id \notin jobTable
    /\ lastReq.handler = "status" =>
          (lastResp.code = 404 <=> RetentionPassed(lastReq.job_id))

C8_Witness ==
    /\ lastReq.handler = "status"
    /\ lastResp.code = 404
    /\ RetentionPassed(lastReq.job_id)
    /\ lastReq.job_id \notin jobTable

C9_EnsureStep ==
    (lastReq'.handler = "prefetch" /\ lastObs'.path = "job") =>
        LET key == build_prefetch_cache_key(lastObs'.state)
            got == lastObs'.job
        IN  /\ jobs'[got].key = key
            /\ jobs'[got].status \in LiveStatuses
            /\ (/\ KeyJobs(key) # {}
                /\ \A id \in KeyJobs(key) : jobs[id].status \in FinishedStatuses) =>
                  /\ lastObs'.created
                  /\ got \notin DOMAIN jobs
                  /\ got \in jobTable'
                  /\ jobPc'[got] = "start"
                  /\ IndexedJob(jobsByKey', key) = got

\* C9: an ensure-job call never returns a finished job, and when the jobs
\* created for the key so far have all reached completed or failed it creates
\* a job with a new id, enters it in the table and the index and starts its
\* thread.
C9_EnsureAfterFinishCreatesNewJob == [][C9_EnsureStep]_vars

C9_Witness ==
    /\ lastReq.handler = "prefetch"
    /\ lastObs.path = "job"
    /\ lastObs.created
    /\ \E id \in DOMAIN jobs :
          /\ id # lastObs.job
          /\ jobs[id].key = jobs[lastObs.job].key
          /\ jobs[id].status \in FinishedStatuses

----
\* Specification Race: concurrent ensure-job calls and job threads, without
\* the clock.

NextRace ==
    \/ \E req \in JobRequests : ApiItemsPrefetch(req) /\ Len(jobs') <= MaxRaceJobs
    \/ \E id \in 1..MaxRaceJobs : JobStep(id)

SpecRace == InitJobs /\ [][NextRace]_vars

\* C2: no two prefetch jobs of one prefetch key are pending or running at
\* the same time.
C2_AtMostOneLiveJobPerKey ==
    \A i, j \in DOMAIN jobs :
        (/\ jobs[i].key = jobs[j].key
         /\ jobs[i].status \in LiveStatuses
         /\ jobs[j].status \in LiveStatuses) => i = j

----
\* Specification Cache: POST /api/items for shallow requests and the clock.

CacheRequests ==
    {Request(inc, <<>>, FALSE, <<>>, "Ascending", 0, limit) :
        inc \in {<<>>, <<"Keep">>}, limit \in 0..ITEM_PAGE_FETCH_LIMIT}

InitCache ==
    InitWith(Remotes(Catalogs({KeepGa, PlainAg}, MaxCacheItems), {0}, {TRUE}, {TRUE}),
             {NoTagEntry})

NextCache ==
    \/ \E req \in CacheRequests : ApiItems(req, {})
    \/ Tick

SpecCache == InitCache /\ [][NextCache]_vars

\* The query cache entries stored under a key, and whether one is younger
\* than ITEM_QUERY_CACHE_TTL.
QueryEntries(key) == {i \in DOMAIN queryCache : queryCache[i].key = key}

LiveQueryEntry(key) ==
    \E i \in QueryEntries(key) : now - queryCache[i].stored_at < ITEM_QUERY_CACHE_TTL

StaleQueryEntry(key) ==
    \E i \in QueryEntries(key) : now - queryCache[i].stored_at >= ITEM_QUERY_CACHE_TTL

\* A live, complete prefetch cache entry that covers the window of a request.
CoveringEntry(e, state) ==
    /\ e.key = build_prefetch_cache_key(state)
    /\ now - e.stored_at < ITEM_PREFETCH_CACHE_TTL
    /\ e.complete
    /\ state.limit > 0 => state.start_index + state.limit <= Len(e.matches)

\* The step is a POST /api/items that got past the parsing of the request.
ItemsStep == lastReq'.handler = "items" /\ lastObs'.path # "early"

\* A computed 200 answer is stored under the request's key; a request whose
\* key has an entry younger than the TTL gets that entry's payload, with no
\* remote fetch, and the entry stays.
C4_HitStep ==
    LET key == build_items_cache_key(lastObs'.state)
    IN  /\ (ItemsStep /\ lastObs'.path \in {"prefetch", "server", "scan"}) =>
              \E j \in DOMAIN queryCache' :
                  queryCache'[j] = [key |-> key, response |-> lastResp',
                                    stored_at |-> now]
        /\ (ItemsStep /\ LiveQueryEntry(key)) =>
              \E i \in QueryEntries(key) :
                  /\ lastResp' = queryCache[i].response
                  /\ lastObs'.path = "query"
                  /\ lastObs'.fetches = <<>>
                  /\ \E j \in DOMAIN queryCache' : queryCache'[j] = queryCache[i]

\* A request whose key has an entry of age >= TTL misses, and the old entry
\* is gone afterwards.
C4_MissStep ==
    LET key == build_items_cache_key(lastObs'.state)
    IN  (ItemsStep /\ StaleQueryEntry(key)) =>
            /\ lastObs'.path # "query"
            /\ \A j \in DOMAIN queryCache' :
                   queryCache'[j].key = key => queryCache'[j].stored_at = now

\* After the miss the request is answered like one never cached.
C4_RecomputedStep ==
    LET state == lastObs'.state
    IN  (ItemsStep /\ StaleQueryEntry(build_items_cache_key(state))) =>
            \/ /\ lastObs'.path = "prefetch"
               /\ lastObs'.fetches = <<>>
               /\ \E i \in DOMAIN prefetchCache : CoveringEntry(prefetchCache[i], state)
            \/ /\ lastObs'.path = "job"
               /\ lastResp'.code = 202
               /\ lastObs'.fetches = <<>>
            \/ /\ lastObs'.path \in {"server", "scan", "error"}
               /\ lastObs'.fetches # <<>> <=> state.limit > 0

C4_FreshFetchStep ==
    (ItemsStep /\ StaleQueryEntry(build_items_cache_key(lastObs'.state))) =>
        lastObs'.fetches # <<>>

\* C4 (as stated): the second of two identical requests, made while the
\* entry is younger than the TTL and not evicted, returns the stored payload
\* without a remote fetch; once the entry's age is at least the TTL the read
\* misses, removes the entry, and the request performs a remote fetch.
C4_HitThenFreshFetchAfterTtl ==
    [][C4_HitStep /\ C4_MissStep /\ C4_FreshFetchStep]_vars

\* C4 (amended): as above, but after the miss the request is answered like
\* one never cached: from a live complete prefetch entry that covers its
\* window when there is one, with 202 when it is handed to a job, and
\* otherwise by a remote fetch (none when the limit is 0).
C4_HitThenRecomputedAfterTtl ==
    [][C4_HitStep /\ C4_MissStep /\ C4_RecomputedStep]_vars

C4_Witness ==
    /\ lastReq.handler = "items"
    /\ lastObs.path = "query"
    /\ lastObs.fetches = <<>>
    /\ lastResp.code = 200
    /\ lastResp.Items # <<>>
    /\ now > 0

----
\* Specification Api: POST /api/items for filtered requests at and beyond
\* the prefetch trigger offset, with the job threads and the clock.

ApiCatalog == [i \in 1..(ITEM_PREFETCH_TRIGGER_START_INDEX + 1) |-> Item(i, KeepGa)]

ApiRequests ==
    {Request(<<"Keep">>, <<>>, FALSE, <<>>, "Ascending",
             ITEM_PREFETCH_TRIGGER_START_INDEX, 1),
     Request(<<"Keep">>, <<>>, FALSE, <<>>, "Ascending",
             ITEM_PREFETCH_TRIGGER_START_INDEX + 1, 1),
     Request(<<"Keep">>, <<>>, FALSE, <<>>, "Ascending",
             ITEM_PREFETCH_TRIGGER_START_INDEX + 1, 0)}

InitApi == InitWith(Remotes({ApiCatalog}, {0}, {TRUE}, {TRUE}), {NoTagEntry})

NextApi ==
    \/ \E req \in ApiRequests : ApiItems(req, {}) /\ Len(jobs') <= MaxJobs
    \/ \E id \in 1..MaxJobs : JobStep(id)
    \/ Tick

SpecApi == InitApi /\ [][NextApi]_vars

C5_DeepStep ==
    LET state == lastObs'.state
    IN  (/\ ItemsStep
         /\ state.include_tag_keys \cup state.exclude_tag_keys # {}
         /\ state.start_index >= ITEM_PREFETCH_TRIGGER_START_INDEX
         /\ ~LiveQueryEntry(build_items_cache_key(state))) =>
            /\ lastObs'.fetches = <<>>
            /\ IF \E i \in DOMAIN prefetchCache : CoveringEntry(prefetchCache[i], state)
               THEN \E i \in DOMAIN prefetchCache :
                      /\ CoveringEntry(prefetchCache[i], state)
                      /\ lastResp'.code = 200
                      /\ lastResp'.Items =
                            IF state.limit > 0
                            THEN Slice(prefetchCache[i].matches, state.start_index,
                                       state.start_index + state.limit)
                            ELSE <<>>
                      /\ lastResp'.TotalMatchCount = prefetchCache[i].total_matches
                      /\ jobs' = jobs
               ELSE /\ lastResp'.code = 202
                    /\ lastResp'.jobId \in jobTable'
                    /\ jobs'[lastResp'.jobId].status \in LiveStatuses
                    /\ jobs'[lastResp'.jobId].key = build_prefetch_cache_key(state)

\* C5: a filtered request at or beyond the trigger offset that misses the
\* query cache is served from a live complete prefetch entry that covers its
\* window, with no remote fetch; without such an entry the request thread
\* fetches nothing and answers 202 with the id of a pending or running job of
\* the request's prefetch key.
C5_DeepRequestServedOrDeferred == [][C5_DeepStep]_vars

C5_Witness ==
    /\ lastReq.handler = "items"
    /\ lastObs.path = "prefetch"
    /\ lastObs.state.start_index >= ITEM_PREFETCH_TRIGGER_START_INDEX
    /\ lastResp.code = 200
    /\ lastResp.Items # <<>>

\* A job for the prefetch key has completed successfully.
JobCompletedFor(key) ==
    \E id \in DOMAIN jobs : jobs[id].key = key /\ jobs[id].status = "completed"

\* The prefetch cache entries of the key that have not expired.
LivePrefetchEntries(key) ==
    {i \in DOMAIN prefetchCache :
        /\ prefetchCache[i].key = key
        /\ now - prefetchCache[i].stored_at < ITEM_PREFETCH_CACHE_TTL}

\* The step is a deep-offset filtered POST /api/items made when a job for its
\* key has completed successfully and the key's entry is in the prefetch
\* cache, unexpired.
RepeatedAfterJob(state) ==
    /\ ItemsStep
    /\ state.include_tag_keys \cup state.exclude_tag_keys # {}
    /\ state.start_index >= ITEM_PREFETCH_TRIGGER_START_INDEX
    /\ JobCompletedFor(build_prefetch_cache_key(state))
    /\ LivePrefetchEntries(build_prefetch_cache_key(state)) # {}

\* The request is answered 200 with its window of the entry's matches (the
\* remainder or nothing where the window passes their end), and no job is
\* created.
ServedFromEntry(state) ==
    /\ lastResp'.code = 200
    /\ jobs' = jobs
    /\ \E i \in LivePrefetchEntries(build_prefetch_cache_key(state)) :
          /\ lastResp'.Items =
                Slice(prefetchCache[i].matches, state.start_index,
                      state.start_index + state.limit)
          /\ lastResp'.TotalMatchCount = prefetchCache[i].total_matches

C27_Step == RepeatedAfterJob(lastObs'.state) => ServedFromEntry(lastObs'.state)

\* C27: once a prefetch job for a key has completed successfully and while
\* the key's prefetch cache entry is neither expired nor evicted, the repeated
\* deep-offset filtered query is answered 200 with the requested slice of the
\* matches (the remainder or an empty page when startIndex + limit exceeds
\* the number of matches) and creates no further job.
C27_RepeatedQueryServedAfterJob == [][C27_Step]_vars

----
\* Specification Lax: /api/items requests below the prefetch trigger offset
\* against remotes that may ignore ExcludeItemTypes or the sort parameters.

BoxKeep == [Type |-> "BoxSet", Name |-> <<"b">>, SortName |-> <<>>,
            Tags |-> <<"Keep">>]

LaxKinds == {KeepGa, PlainAg, BoxKeep}

LaxRequests ==
    {Request(inc, <<>>, collections, <<>>, order, 0, limit) :
        inc \in {<<>>, <<"Keep">>}, collections \in BOOLEAN,
        order \in {"Ascending", "Descending"}, limit \in 1..ITEM_PAGE_FETCH_LIMIT}

InitLax ==
    InitWith(LaxRemotes(Catalogs(LaxKinds, MaxLaxItems), BOOLEAN, BOOLEAN),
             {NoTagEntry})

\* Requests arrive until the query cache is full.
NextLax ==
    \E req \in LaxRequests :
        /\ Len(queryCache) < ITEM_QUERY_CACHE_MAX_ENTRIES
        /\ ApiItems(req, {})

SpecLax == InitLax /\ [][NextLax]_vars

\* C11: with excludeCollections set, no item of a 200 /api/items response
\* has one of the collection types, whatever the remote returned in its pages.
C11_NoCollectionItemServed ==
    (ItemsAnswered /\ lastReq.req.excludeCollections) =>
        \A i \in DOMAIN lastResp.Items :
            lastResp.Items[i].Type \notin COLLECTION_ITEM_TYPES

\* C12: the items of every 200 /api/items response are in the order of the
\* request's normalized sort spec (name order, reversed for descending),
\* whatever order the remote returned them in.
C12_ResponseInSortOrder ==
    ItemsAnswered =>
        lastResp.Items = sort_items_for_response(lastResp.Items, lastResp.SortBy,
                                                 lastResp.SortOrder)

----
\* Specification Filter: item_matches_filters applied to any small item and
\* any normalized filter set.

FilterTagLists ==
    {<<>>, <<"Keep">>, <<"keep", "Keep">>, <<" Keep", "Drop">>, <<"Drop", " ">>}

FilterItems ==
    {[Id |-> 1, Type |-> "Movie", Name |-> name, SortName |-> sort_name,
      Tags |-> tags] :
        name \in {<<"G", "a">>, <<"b">>},
        sort_name \in {<<>>, <<"a", "G">>},
        tags \in FilterTagLists}

FilterTagKeys == SUBSET {"keep", "drop"}

FilterTitles == {<<>>, <<"g">>, <<"a", "g">>, <<"b">>}

InitFilter == InitWith(Remotes({<<>>}, {0}, {TRUE}, {TRUE}), {NoTagEntry})

\* One call of item_matches_filters.
ItemMatchesFilters(item, include_tag_keys, exclude_tag_keys, title_query_lower) ==
    /\ lastReq' = [handler |-> "item_matches_filters", item |-> item,
                   include_tag_keys |-> include_tag_keys,
                   exclude_tag_keys |-> exclude_tag_keys,
                   title_query_lower |-> title_query_lower]
    /\ lastResp' = [code |-> 0,
                    retained |-> item_matches_filters(item, include_tag_keys,
                                                      exclude_tag_keys,
                                                      title_query_lower)]
    /\ lastObs' = NoObs
    /\ UNCHANGED <<remote, tagCache, tagRefresh, tagReqs, now, queryCache, prefetchCache, jobs, jobTable,
                   jobsByKey, jobPc, jobLocal>>

NextFilter ==
    \E item \in FilterItems, inc \in FilterTagKeys, exc \in FilterTagKeys,
       title \in FilterTitles :
        /\ lastReq = NoRequest
        /\ ItemMatchesFilters(item, inc, exc, title)

SpecFilter == InitFilter /\ [][NextFilter]_vars

\* The case-folded set of an item's trimmed, non-blank tag names.
FoldedTagSet(item) ==
    {TagFold(TagStrip(t)) : t \in SeqToSet(item.Tags)} \ {""}

\* C13: item_matches_filters retains an item if and only if its case-folded
\* tag set contains every required tag, contains no forbidden tag, and, when
\* a title query is present, the query is a case-insensitive substring of its
\* Name or of its SortName.
C13_RetainedIffFiltersHold ==
    lastReq.handler = "item_matches_filters" =>
        (lastResp.retained <=>
            /\ lastReq.include_tag_keys \subseteq FoldedTagSet(lastReq.item)
            /\ lastReq.exclude_tag_keys \cap FoldedTagSet(lastReq.item) = {}
            /\ (lastReq.title_query_lower # <<>> =>
                    \/ Contains(casefold(lastReq.item.Name), lastReq.title_query_lower)
                    \/ Contains(casefold(lastReq.item.SortName),
                                lastReq.title_query_lower)))

\* An item retained for its tags and for a title found in its SortName only.
C13_Witness ==
    /\ lastReq.handler = "item_matches_filters"
    /\ lastResp.retained
    /\ lastReq.include_tag_keys = {"keep"}
    /\ lastReq.exclude_tag_keys = {"drop"}
    /\ lastReq.title_query_lower = <<"a", "g">>
    /\ ~Contains(casefold(lastReq.item.Name), lastReq.title_query_lower)

----
\* Specification Keys: /api/items requests whose scope and filters are
\* written in different but equivalent ways.

KeyRequests ==
    {[types |-> types, includeTags |-> inc, excludeTags |-> exc,
      excludeCollections |-> FALSE, titleQuery |-> title,
      sortOrder |-> "Ascending", startIndex |-> 0, limit |-> 1] :
        types \in {<<"Movie", "Series">>, <<"Series", "Movie">>},
        inc \in {<<"Keep">>, <<"keep", "Keep">>, <<" Keep", " ">>, <<"Keep", "Drop">>,
                 <<"Drop", "keep">>},
        exc \in {<<>>, <<"Drop">>},
        title \in {<<"g">>, <<"G">>, <<" ", "g">>, <<"G", " ">>}}

KeysCatalog == <<Item(1, KeepGa), Item(2, PlainAg)>>

InitKeys == InitWith(Remotes({KeysCatalog}, {0}, {TRUE}, {TRUE}), {NoTagEntry})

\* Requests arrive until the query cache is full.
NextKeys ==
    \E req \in KeyRequests :
        /\ Len(queryCache) < ITEM_QUERY_CACHE_MAX_ENTRIES
        /\ ApiItems(req, {})

SpecKeys == InitKeys /\ [][NextKeys]_vars

\* The tags a list of parts names, without regard to case, order, duplicates
\* and surrounding whitespace.
TagsMeant(parts) == {TagFold(TagStrip(parts[i])) : i \in DOMAIN parts} \ {""}

\* Two requests with semantically equal scope and filters.
SameScopeAndFilters(r1, r2) ==
    /\ SeqToSet(r1.types) = SeqToSet(r2.types)
    /\ TagsMeant(r1.includeTags) = TagsMeant(r2.includeTags)
    /\ TagsMeant(r1.excludeTags) = TagsMeant(r2.excludeTags)
    /\ casefold(StripText(r1.titleQuery)) = casefold(StripText(r2.titleQuery))
    /\ r1.excludeCollections = r2.excludeCollections
    /\ r1.sortOrder = r2.sortOrder

\* C14: a request semantically equal to the one just handled (tags differing
\* in case, order, duplicates or surrounding whitespace, types in order,
\* title queries in case or surrounding whitespace) builds the same
\* prefetch-cache key and, for the same window, the same query-cache key.
C14_EqualRequestsBuildEqualKeys ==
    lastReq.handler = "items" =>
        \A other \in KeyRequests :
            SameScopeAndFilters(other, lastReq.req) =>
                /\ build_prefetch_cache_key(parse_items_request(other).state)
                        = build_prefetch_cache_key(lastObs.state)
                /\ (other.startIndex = lastReq.req.startIndex
                        /\ other.limit = lastReq.req.limit) =>
                       build_items_cache_key(parse_items_request(other).state)
                            = build_items_cache_key(lastObs.state)

----
\* Specification Limit: /api/items requests whose limit is zero or negative,
\* at shallow and deep offsets, with the job threads.

LimitRequests ==
    {Request(inc, <<>>, FALSE, <<>>, "Ascending", start, limit) :
        inc \in {<<>>, <<"Keep">>},
        start \in {0, ITEM_PREFETCH_TRIGGER_START_INDEX}, limit \in {-1, 0}}

InitLimit == InitWith(Remotes({JobsCatalog}, {0}, {TRUE}, {TRUE}), {NoTagEntry})

NextLimit ==
    \/ \E req \in LimitRequests : ApiItems(req, {}) /\ Len(jobs') <= MaxJobs
    \/ \E id \in 1..MaxJobs : JobStep(id)

SpecLimit == InitLimit /\ [][NextLimit]_vars

\* C15: a request whose limit is zero or negative is answered at once with
\* an empty result and ReturnedCount = 0, whatever its startIndex and
\* filters, with no remote page fetch and no background job started.
C15_NonPositiveLimitAnswersEmpty ==
    (lastReq.handler = "items" /\ lastReq.req.limit <= 0) =>
        /\ lastResp.code = 200
        /\ lastResp.Items = <<>>
        /\ lastResp.ReturnedCount = 0
        /\ lastObs.fetches = <<>>
        /\ ~lastObs.created

----
\* jellyfin_client.py: the item update with its verb fallback.
\* The remote's answer to one HTTP request is an outcome: an HTTP status, or
\* NetworkError when the request raises without a response (connection
\* error, timeout).  A call returns [raised, error, calls]: error is the
\* status of the HTTPError raised (NetworkError for any other exception,
\* NoFailure when nothing was raised), calls the requests sent, in order.

NetworkError == 0    \* an exception other than requests.HTTPError
NoFailure == -1      \* the call returned

Outcomes == {200, 204, 400, 404, 405, 500, 501, NetworkError}

HttpCall(verb, url, json) == [verb |-> verb, url |-> url, json |-> json]

\* requests.put / requests.post followed by _raise_for_status.
http_send(verb, url, json, outcome) ==
    [raised |-> outcome = NetworkError \/ outcome >= 400,
     error |-> IF outcome = NetworkError \/ outcome >= 400 THEN outcome ELSE NoFailure,
     calls |-> <<HttpCall(verb, url, json)>>]

jf_put(url, json, outcome) == http_send("PUT", url, json, outcome)

jf_post(url, json, outcome) == http_send("POST", url, json, outcome)

\* _is_unsupported_method_error that also takes a server error for one.
is_unsupported_method_error_AnyServerError(error) ==
    error # NetworkError /\ error \in {405, 500, 501}

\* _is_unsupported_method_error, for the status of an HTTPError.
is_unsupported_method_error(error) ==
    error # NetworkError /\ error \in {405, 501}

\* jf_put_with_fallback after the PUT raised an HTTPError (requests.HTTPError
\* is the only exception the except clause catches).
put_fallback(url, json, put, post) ==
    IF is_unsupported_method_error(put.error)
    THEN [raised |-> post.raised, error |-> post.error,
          calls |-> put.calls \o post.calls]
    ELSE put

jf_put_with_fallback(url, json, put_outcome, post_outcome) ==
    IF put_outcome # NetworkError /\ jf_put(url, json, put_outcome).raised
    THEN put_fallback(url, json, jf_put(url, json, put_outcome),
                      jf_post(url, json, post_outcome))
    ELSE jf_put(url, json, put_outcome)

\* Specification Put: one item update against any pair of remote outcomes.

PutUrls == {"Items/1", "Items/2"}

PutPayloads == {[Id |-> 1, Tags |-> <<>>], [Id |-> 1, Tags |-> <<"Keep">>]}

InitPut == InitWith(Remotes({<<>>}, {0}, {TRUE}, {TRUE}), {NoTagEntry})

\* One call of jf_put_with_fallback; put, post: what the remote answers to
\* the PUT and to a POST.
JfPutWithFallback(url, json, put, post) ==
    /\ lastReq' = [handler |-> "jf_put_with_fallback", url |-> url, json |-> json,
                   put |-> put, post |-> post]
    /\ lastResp' = [code |-> 0,
                    raised |-> jf_put_with_fallback(url, json, put, post).raised,
                    error |-> jf_put_with_fallback(url, json, put, post).error]
    /\ lastObs' = [path |-> "none", fetches |-> <<>>,
                   calls |-> jf_put_with_fallback(url, json, put, post).calls]
    /\ UNCHANGED <<remote, tagCache, tagRefresh, tagReqs, now, queryCache, prefetchCache, jobs, jobTable,
                   jobsByKey, jobPc, jobLocal>>

NextPut ==
    \E url \in PutUrls, json \in PutPayloads, put \in Outcomes, post \in Outcomes :
        /\ lastReq = NoRequest
        /\ JfPutWithFallback(url, json, put, post)

SpecPut == InitPut /\ [][NextPut]_vars

\* An outcome that makes the request fail.
Failure(outcome) == outcome = NetworkError \/ outcome >= 400

\* C16: the update sends one PUT; only when the PUT fails with HTTP 405 or
\* 501 it sends exactly one POST to the same URL with the same payload; any
\* other failure of the PUT, and any failure of the POST, is raised to the
\* caller with no further request.
C16_OnePutThenAtMostOnePost ==
    lastReq.handler = "jf_put_with_fallback" =>
        /\ lastObs.calls[1] = HttpCall("PUT", lastReq.url, lastReq.json)
        /\ IF lastReq.put \in {405, 501}
           THEN /\ lastObs.calls = <<HttpCall("PUT", lastReq.url, lastReq.json),
                                     HttpCall("POST", lastReq.url, lastReq.json)>>
                /\ lastResp.raised = Failure(lastReq.post)
                /\ lastResp.raised => lastResp.error = lastReq.post
           ELSE /\ Len(lastObs.calls) = 1
                /\ lastResp.raised = Failure(lastReq.put)
                /\ lastResp.raised => lastResp.error = lastReq.put

\* The PUT was refused with 501 and the POST failed: two requests, the
\* POST's error raised.
C16_Witness ==
    /\ lastReq.handler = "jf_put_with_fallback"
    /\ lastReq.put = 501
    /\ Len(lastObs.calls) = 2
    /\ lastResp.raised
    /\ lastResp.error = 500

----
\* Tag vocabulary (services/tags.py).  A tally is the pair (counts,
\* canonical_names) of the source, with the insertion order of the keys
\* of counts kept in "keys".

NoCount == -1      \* an entry without ItemCount and Count

EmptyTally == [keys |-> <<>>, counts |-> <<>>, canonical |-> <<>>]

\* services/tags.py _add_tag_count.
add_tag_count(tally, name, count) ==
    IF count <= 0 THEN tally
    ELSE IF TagStrip(name) = "" THEN tally
    ELSE LET trimmed == TagStrip(name)
             key == TagFold(trimmed)
         IN  IF key \in DOMAIN tally.counts
             THEN [tally EXCEPT !.counts[key] = @ + count]
             ELSE [keys |-> Append(tally.keys, key),
                   counts |-> tally.counts @@ (key :> count),
                   canonical |-> tally.canonical @@ (key :> trimmed)]

RECURSIVE tag_counts_from_entries(_, _)
\* services/tags.py _tag_counts_from_endpoint_items, from the tally so far.
tag_counts_from_entries(items, tally) ==
    IF items = <<>> THEN tally
    ELSE LET entry == Head(items)
             count == IF entry.ItemCount = NoCount THEN 1 ELSE entry.ItemCount
         IN  tag_counts_from_entries(
                 Tail(items),
                 IF entry.Name = "" THEN tally
                 ELSE add_tag_count(tally, entry.Name, count))

tag_counts_from_endpoint_items(items) == tag_counts_from_entries(items, EmptyTally)

\* The sort key of _sorted_tag_names seen as an order on (name, count):
\* (-count, name.casefold(), name).
tag_sort_key_less_NameOnly(a, b) ==
    IF casefold(TagText(a.name)) # casefold(TagText(b.name))
    THEN StrLess(casefold(TagText(a.name)), casefold(TagText(b.name)))
    ELSE StrLess(TagText(a.name), TagText(b.name))
tag_sort_key_less(a, b) ==
    IF a.count # b.count THEN a.count > b.count
    ELSE IF casefold(TagText(a.name)) # casefold(TagText(b.name))
    THEN StrLess(casefold(TagText(a.name)), casefold(TagText(b.name)))
    ELSE StrLess(TagText(a.name), TagText(b.name))

RECURSIVE InsertSortable(_, _)
\* list.sort is stable: x goes behind every element that is not greater.
InsertSortable(sorted, x) ==
    IF sorted = <<>> THEN <<x>>
    ELSE IF tag_sort_key_less(x, Head(sorted)) THEN <<x>> \o sorted
    ELSE <<Head(sorted)>> \o InsertSortable(Tail(sorted), x)

RECURSIVE SortSortable(_, _)
SortSortable(sortable, sorted) ==
    IF sortable = <<>> THEN sorted
    ELSE SortSortable(Tail(sortable), InsertSortable(sorted, Head(sortable)))

\* services/tags.py _sorted_tag_names (sorted_tag_names is the same function).
sorted_tag_names(tally) ==
    LET sortable == [i \in DOMAIN tally.keys |->
                        [name |-> tally.canonical[tally.keys[i]],
                         count |-> tally.counts[tally.keys[i]]]]
        sorted == SortSortable(sortable, <<>>)
    IN  [i \in DOMAIN sorted |-> sorted[i].name]

----
\* Specification Vocabulary: one tag listing is counted and sorted.

ListingNames == {"Keep", "keep", " Keep", "drop", " "}
ListingCounts == {NoCount, 0, 2}
ListingEntries == [Name : ListingNames, ItemCount : ListingCounts]

RECURSIVE SeqsUpTo(_, _)
\* The sequences over S of length at most n.
SeqsUpTo(S, n) ==
    IF n = 0 THEN {<<>>}
    ELSE LET shorter == SeqsUpTo(S, n - 1)
         IN  shorter \cup {Append(q, x) : q \in shorter, x \in S}

InitVocabulary == InitWith(Remotes({<<>>}, {0}, {TRUE}, {TRUE}), {NoTagEntry})

\* The listing is counted and the vocabulary sorted.
SortedTagNames(items) ==
    /\ lastReq = NoRequest
    /\ lastReq' = [handler |-> "sorted_tag_names", items |-> items]
    /\ lastResp' = [code |-> 0,
                    tags |-> sorted_tag_names(tag_counts_from_endpoint_items(items))]
    /\ lastObs' = [counts |-> tag_counts_from_endpoint_items(items).counts]
    /\ UNCHANGED <<remote, tagCache, tagRefresh, tagReqs, now, queryCache, prefetchCache, jobs,
                   jobTable, jobsByKey, jobPc, jobLocal>>

NextVocabulary ==
    /\ lastReq = NoRequest
    /\ \E items \in SeqsUpTo(ListingEntries, MaxTagEntries) : SortedTagNames(items)

SpecVocabulary == InitVocabulary /\ [][NextVocabulary]_vars

\* What an entry of a listing adds to its tag: nothing for a blank name or a
\* count of zero, one when it carries no count.
Counted(entry) ==
    IF TagStrip(entry.Name) = "" THEN 0
    ELSE IF entry.ItemCount = NoCount THEN 1
    ELSE entry.ItemCount

RECURSIVE ClassCount(_, _)
\* The occurrences of the names that casefold to key.
ClassCount(items, key) ==
    IF items = <<>> THEN 0
    ELSE (IF TagFold(TagStrip(Head(items).Name)) = key THEN Counted(Head(items)) ELSE 0)
         + ClassCount(Tail(items), key)

\* The first counted spelling of the names that casefold to key.
FirstSpelling(items, key) ==
    LET seen == {i \in DOMAIN items :
                    /\ Counted(items[i]) > 0
                    /\ TagFold(TagStrip(items[i].Name)) = key}
        first == CHOOSE i \in seen : \A j \in seen : i <= j
    IN  TagStrip(items[first].Name)

\* C20: the vocabulary is sorted by descending occurrence count, then by
\* ascending case-folded name, then by the literal name; names that differ
\* only in case are counted together and appear once, in the spelling seen
\* first.
C20_VocabularyByCountThenName ==
    lastReq.handler = "sorted_tag_names" =>
        LET items == lastReq.items
            tags == lastResp.tags
            keys == {TagFold(TagStrip(items[i].Name)) :
                        i \in {j \in DOMAIN items : Counted(items[j]) > 0}}
            n(i) == ClassCount(items, TagFold(tags[i]))
            folded(i) == casefold(TagText(tags[i]))
        IN  /\ {TagFold(tags[i]) : i \in DOMAIN tags} = keys
            /\ Len(tags) = Cardinality(keys)
            /\ \A i \in DOMAIN tags : tags[i] = FirstSpelling(items, TagFold(tags[i]))
            /\ \A i, j \in DOMAIN tags :
                   i < j =>
                       \/ n(i) > n(j)
                       \/ n(i) = n(j) /\ StrLess(folded(i), folded(j))
                       \/ /\ n(i) = n(j)
                          /\ folded(i) = folded(j)
                          /\ StrLess(TagText(tags[i]), TagText(tags[j]))

\* "keep" and "Keep" are one tag spelled "keep", counted twice; it ties with
\* "drop" and follows it.
C20_Witness ==
    /\ lastReq.handler = "sorted_tag_names"
    /\ Len(lastReq.items) = 3
    /\ lastReq.items[1] = [Name |-> "keep", ItemCount |-> NoCount]
    /\ lastReq.items[2] = [Name |-> "drop", ItemCount |-> 2]
    /\ lastReq.items[3] = [Name |-> "Keep", ItemCount |-> NoCount]
    /\ lastResp.tags = <<"drop", "keep">>
    /\ lastObs.counts["keep"] = 2

----
\* Building the tag vocabulary: the two tag listings of the remote and the
\* aggregation over its items (services/tags.py).
\*
\* A tag listing of the remote is [fails, entries, offset, total]:
\*   fails    every GET of it raises;
\*   entries  the entries it lists;
\*   offset   whether it applies StartIndex (otherwise every page is the first);
\*   total    whether it reports TotalRecordCount.

\* A strategy's outcome: the tally it returned, or that it raised.
Counts(tally) == [ok |-> TRUE, tally |-> tally]
Raised == [ok |-> FALSE, tally |-> EmptyTally]

\* jellyfin_client.py jf_get of a tag listing with Limit = TAG_PAGE_LIMIT.
tag_listing_page(listing, start_index) ==
    LET from == IF listing.offset THEN start_index ELSE 0
    IN  [Items |-> Slice(listing.entries, from, from + TAG_PAGE_LIMIT),
         TotalRecordCount |-> IF listing.total THEN Len(listing.entries) ELSE NoTotal]

RECURSIVE MergeKeys(_, _, _)
MergeKeys(keys, aggregate, new) ==
    IF keys = <<>> THEN aggregate
    ELSE LET key == Head(keys)
             merged ==
                 IF new.counts[key] <= 0 THEN aggregate
                 ELSE IF key \in DOMAIN aggregate.counts
                 THEN [aggregate EXCEPT !.counts[key] = @ + new.counts[key]]
                 ELSE [keys |-> Append(aggregate.keys, key),
                       counts |-> aggregate.counts @@ (key :> new.counts[key]),
                       canonical |-> aggregate.canonical @@ (key :> new.canonical[key])]
         IN  MergeKeys(Tail(keys), merged, new)

\* services/tags.py _merge_tag_counts.
merge_tag_counts(aggregate, new) == MergeKeys(new.keys, aggregate, new)

\* What collect_paginated_tags did: its outcome, the StartIndex of every
\* page it requested, and the error it raised ("fetch": jf_get raised;
\* "capped" and "pages": the two TagPaginationErrors).
Paged(outcome, requests, error) ==
    [ok |-> outcome.ok, tally |-> outcome.tally, requests |-> requests,
     error |-> error]

\* "if page_number >= MAX_TAG_PAGES", tested after the page was merged and
\* counted.
TooManyPages(page_number) == page_number >= MAX_TAG_PAGES

\* RepeatedPage that never finds a repetition.
RepeatedPage_Never(has_previous, items, previous_signature) == FALSE

\* "previous_signature is not None and signature == previous_signature"; the
\* entries of the model carry nothing but the fields of the signature.
RepeatedPage(has_previous, items, previous_signature) ==
    has_previous /\ items = previous_signature

RECURSIVE CollectPages(_, _, _, _, _, _, _)
\* The loop of collect_paginated_tags: one page per call.
CollectPages(listing, start_index, tally, has_previous, previous_signature, page_number, requests) ==
    IF listing.fails THEN Paged(Raised, Append(requests, start_index), "fetch")
    ELSE LET response == tag_listing_page(listing, start_index)
             items == response.Items
             merged == merge_tag_counts(tally, tag_counts_from_endpoint_items(items))
             next_start == start_index + Len(items)
             asked == Append(requests, start_index)
             \* "TotalRecordCount or TotalCount": zero counts as missing
             total_count == IF response.TotalRecordCount > 0
                            THEN response.TotalRecordCount ELSE NoTotal
         IN  IF RepeatedPage(has_previous, items, previous_signature)
             THEN Paged(Raised, asked, "capped")
             ELSE IF items = <<>> THEN Paged(Counts(tally), asked, NoError)
             ELSE IF TooManyPages(page_number + 1) THEN Paged(Raised, asked, "pages")
             ELSE IF Len(items) < TAG_PAGE_LIMIT THEN Paged(Counts(merged), asked, NoError)
             ELSE IF total_count # NoTotal /\ next_start >= total_count
             THEN Paged(Counts(merged), asked, NoError)
             ELSE CollectPages(listing, next_start, merged, TRUE, items,
                               page_number + 1, asked)

\* services/tags.py collect_paginated_tags.
collect_paginated_tags(listing) ==
    CollectPages(listing, 0, EmptyTally, FALSE, <<>>, 0, <<>>)

RECURSIVE AddItemTags(_, _)
AddItemTags(names, tally) ==
    IF names = <<>> THEN tally
    ELSE AddItemTags(Tail(names), add_tag_count(tally, Head(names), 1))

RECURSIVE AddItemsTags(_, _)
\* "for it in items: for name in item_tags(it): _add_tag_count(..., name, 1)".
AddItemsTags(items, tally) ==
    IF items = <<>> THEN tally
    ELSE AddItemsTags(Tail(items), AddItemTags(item_tags(Head(items)), tally))

AggregatePages_FirstPage(current_start, current_limit, tally, bad) ==
    IF current_start \in bad THEN Raised
    ELSE Counts(AddItemsTags(
             page_items(current_start, current_limit, <<>>, {}, "SortName",
                        "Ascending").Items, tally))
RECURSIVE AggregatePages(_, _, _, _)
\* The loop of aggregate_tags_from_items: one page per call; the fetches at
\* the start offsets in bad raise.
AggregatePages(current_start, current_limit, tally, bad) ==
    IF current_start \in bad THEN Raised
    ELSE LET payload == page_items(current_start, current_limit, <<>>, {},
                                   "SortName", "Ascending")
             items == payload.Items
             batch_size == Len(items)
             counted == AddItemsTags(items, tally)
             next_start == current_start + batch_size
         IN  IF items = <<>> THEN Counts(tally)
             ELSE IF /\ payload.TotalRecordCount # NoTotal
                     /\ next_start < payload.TotalRecordCount
             THEN AggregatePages(next_start,
                                 IF 0 < batch_size /\ batch_size < current_limit
                                 THEN batch_size ELSE current_limit,
                                 counted, bad)
             ELSE IF batch_size < current_limit THEN Counts(counted)
             ELSE AggregatePages(next_start, current_limit, counted, bad)

\* services/tags.py aggregate_tags_from_items.
aggregate_tags_from_items(start, fetch_limit, bad) ==
    AggregatePages(start, fetch_limit, EmptyTally, bad)

\* The vocabulary a refresh arrives at: the sorted names, the strategy they
\* come from, and the strategies tried.
Vocabulary(outcome, source, tried) ==
    [ok |-> outcome.ok,
     tags |-> IF outcome.ok THEN sorted_tag_names(outcome.tally) ELSE <<>>,
     source |-> IF outcome.ok THEN source ELSE "",
     tried |-> tried]

aggregated_vocabulary(bad, tried) ==
    Vocabulary(aggregate_tags_from_items(0, AGGREGATE_FETCH_LIMIT, bad),
               "aggregated", Append(tried, "aggregated"))

global_vocabulary(global_tags, bad, tried) ==
    IF collect_paginated_tags(global_tags).ok
    THEN Vocabulary(collect_paginated_tags(global_tags), "items-tags",
                    Append(tried, "items-tags"))
    ELSE aggregated_vocabulary(bad, Append(tried, "items-tags"))

\* The strategies in order: the listing of the user's tags (when the request
\* names a user), the global listing, the aggregation over the items.
build_tag_vocabulary(user_id, user_tags, global_tags, bad) ==
    IF user_id # "" /\ collect_paginated_tags(user_tags).ok
    THEN Vocabulary(collect_paginated_tags(user_tags), "users-items-tags",
                    <<"users-items-tags">>)
    ELSE global_vocabulary(global_tags, bad,
                           IF user_id # "" THEN <<"users-items-tags">> ELSE <<>>)

----
\* Specification Strategies: one vocabulary is built against a remote whose
\* tag listings may fail, repeat pages or run long.

Entry(name, count) == [Name |-> name, ItemCount |-> count]

ShortListing == <<Entry("Keep", 2)>>
TwoPageListing == <<Entry("keep", NoCount), Entry("drop", 2), Entry("Keep", NoCount)>>
LongListing ==
    <<Entry("Keep", 2), Entry("drop", 2), Entry("keep", 2), Entry("Keep", 0),
      Entry("drop", NoCount)>>

Listing(fails, entries, offset, total) ==
    [fails |-> fails, entries |-> entries, offset |-> offset, total |-> total]

TagListings ==
    {Listing(TRUE, <<>>, TRUE, TRUE),
     Listing(FALSE, <<>>, TRUE, TRUE),
     Listing(FALSE, ShortListing, TRUE, FALSE),
     Listing(FALSE, TwoPageListing, TRUE, TRUE),
     Listing(FALSE, TwoPageListing, TRUE, FALSE),
     Listing(FALSE, TwoPageListing, FALSE, FALSE),
     Listing(FALSE, LongListing, TRUE, TRUE)}

StrategyCatalogs ==
    {<<>>,
     <<Item(1, KeepGa), Item(2, PlainAg)>>,
     <<Item(1, KeepGa), Item(2, PlainAg), Item(3, KeepB), Item(4, PlainAg)>>}

InitStrategies ==
    InitWith(Remotes(StrategyCatalogs, {0, 2}, {TRUE}, {TRUE, FALSE}), {NoTagEntry})

BuildTagVocabulary(user_id, user_tags, global_tags, bad) ==
    /\ lastReq = NoRequest
    /\ lastReq' = [handler |-> "build_tag_vocabulary", user_id |-> user_id,
                   user_tags |-> user_tags, global_tags |-> global_tags,
                   bad |-> bad]
    /\ lastResp' = build_tag_vocabulary(user_id, user_tags, global_tags, bad)
    /\ lastObs' = [user |-> collect_paginated_tags(user_tags).ok,
                   global |-> collect_paginated_tags(global_tags).ok]
    /\ UNCHANGED <<remote, tagCache, tagRefresh, tagReqs, now, queryCache,
                   prefetchCache, jobs, jobTable, jobsByKey, jobPc, jobLocal>>

NextStrategies ==
    /\ lastReq = NoRequest
    /\ \E user_id \in {"", "u1"}, user_tags \in TagListings,
          global_tags \in TagListings, bad \in FailChoices :
           BuildTagVocabulary(user_id, user_tags, global_tags, bad)

SpecStrategies == InitStrategies /\ [][NextStrategies]_vars

\* The strategies that apply to a request, in the order of preference.
StrategyOrder(user_id) ==
    IF user_id # "" THEN <<"users-items-tags", "items-tags", "aggregated">>
    ELSE <<"items-tags", "aggregated">>

\* The tags carried by the items of the remote, case-folded.
CatalogTagKeys ==
    {TagFold(t) : t \in UNION {SeqToSet(item_tags(remote.catalog[i])) :
                                  i \in DOMAIN remote.catalog}}

\* The number of items of the remote that carry the tag.
CatalogTagCount(key) ==
    Cardinality({i \in DOMAIN remote.catalog :
                    key \in {TagFold(t) : t \in SeqToSet(item_tags(remote.catalog[i]))}})

\* Whether a strategy, tried on the request, failed.
StrategyFailed(name) ==
    CASE name = "users-items-tags" -> ~lastObs.user
      [] name = "items-tags" -> ~lastObs.global
      [] OTHER -> lastReq.bad # {}

----
\* POST /api/tags (routes/tags.py api_tags) and the refresh of the tag cache
\* entry behind it.  One cache key is modelled.  The refresh registry
\* (get_tag_cache_snapshot, is_refresh_in_progress, ensure_tag_cache_refresh
\* and the refresh thread) is outside the modelled sources: a refresh is
\* started by an atomic check-and-insert on the key, builds the vocabulary,
\* stores the entry and then leaves the registry.

get_tag_cache_snapshot == tagCache

is_refresh_in_progress == tagRefresh.active

NoVocabulary == [ok |-> FALSE, tags |-> <<>>, source |-> "", tried |-> <<>>]

\* The registry after ensure_tag_cache_refresh.
ensure_tag_cache_refresh_Unguarded(refresh) ==
    [active |-> TRUE,
     threads |-> Append(refresh.threads, [pc |-> "build", result |-> NoVocabulary])]
ensure_tag_cache_refresh(refresh) ==
    IF refresh.active THEN refresh
    ELSE [active |-> TRUE,
          threads |-> Append(refresh.threads,
                             [pc |-> "build", result |-> NoVocabulary])]

\* The refresh thread builds the vocabulary against the remote.
RefreshBuild(i, user_tags, global_tags, bad) ==
    /\ i \in DOMAIN tagRefresh.threads
    /\ tagRefresh.threads[i].pc = "build"
    /\ tagRefresh' = [tagRefresh EXCEPT
           !.threads[i] = [pc |-> "store",
                           result |-> [build_tag_vocabulary("u1", user_tags,
                                                            global_tags, bad)
                                           EXCEPT !.tried = <<>>]]]
    /\ UNCHANGED <<remote, tagCache, tagReqs, now, queryCache, prefetchCache,
                   jobs, jobTable, jobsByKey, jobPc, jobLocal, lastReq,
                   lastResp, lastObs>>

\* It stores the entry: the vocabulary, or the error with the tags it had.
RefreshStore(i) ==
    /\ i \in DOMAIN tagRefresh.threads
    /\ tagRefresh.threads[i].pc = "store"
    /\ tagCache' =
           IF tagRefresh.threads[i].result.ok
           THEN [present |-> TRUE,
                 tags |-> tagRefresh.threads[i].result.tags,
                 source |-> tagRefresh.threads[i].result.source,
                 error |-> "",
                 updated |-> now]
           ELSE [tagCache EXCEPT !.present = TRUE, !.error = "failed",
                                 !.updated = now]
    /\ tagRefresh' = [tagRefresh EXCEPT
           !.threads[i] = [pc |-> "finish", result |-> NoVocabulary]]
    /\ UNCHANGED <<remote, tagReqs, now, queryCache, prefetchCache, jobs,
                   jobTable, jobsByKey, jobPc, jobLocal, lastReq, lastResp,
                   lastObs>>

\* It leaves the registry.
RefreshFinish(i) ==
    /\ i \in DOMAIN tagRefresh.threads
    /\ tagRefresh.threads[i].pc = "finish"
    /\ tagRefresh' = [active |-> FALSE,
                      threads |-> [tagRefresh.threads EXCEPT ![i].pc = "done"]]
    /\ UNCHANGED <<remote, tagCache, tagReqs, now, queryCache, prefetchCache,
                   jobs, jobTable, jobsByKey, jobPc, jobLocal, lastReq,
                   lastResp, lastObs>>

NoTagsResponse == [code |-> 0, tags |-> <<>>, source |-> "", message |-> ""]

\* The locals of a request: cached is what line 51 found (whether an entry
\* without error, and its tags), saw the mark read at line 53, ensured the calls of ensure_tag_cache_refresh, slept
\* the passes through time.sleep.
NewTagsRequest ==
    [pc |-> "snapshot", entry |-> NoTagEntry,
     cached |-> [vocabulary |-> FALSE, tags |-> <<>>],
     needs_refresh |-> FALSE, refreshing |-> FALSE, saw |-> FALSE,
     wait_deadline |-> 0, ensured |-> 0, slept |-> 0, resp |-> NoTagsResponse]

TagsUnchanged ==
    UNCHANGED <<remote, tagCache, tagRefresh, now, queryCache, prefetchCache,
                jobs, jobTable, jobsByKey, jobPc, jobLocal, lastReq, lastResp,
                lastObs>>

TagsKeepRegistry ==
    UNCHANGED <<remote, tagCache, now, queryCache, prefetchCache, jobs,
                jobTable, jobsByKey, jobPc, jobLocal, lastReq, lastResp,
                lastObs>>

\* Lines 27-49: the request arrives; without libraryId it is refused.
TagsArrive(lib_id) ==
    /\ Len(tagReqs) < MaxTagRequests
    /\ tagReqs' = Append(tagReqs,
           IF lib_id = ""
           THEN [NewTagsRequest EXCEPT
                    !.pc = "done",
                    !.resp = [code |-> 400, tags |-> <<>>, source |-> "",
                              message |-> "libraryId is required"]]
           ELSE NewTagsRequest)
    /\ TagsUnchanged

\* Lines 51-52.
TagsSnapshot(t) ==
    /\ t \in DOMAIN tagReqs
    /\ tagReqs[t].pc = "snapshot"
    /\ tagReqs' = [tagReqs EXCEPT ![t] =
           [@ EXCEPT !.pc = "check",
                     !.entry = get_tag_cache_snapshot,
                     !.cached = [vocabulary |-> /\ get_tag_cache_snapshot.present
                                                /\ get_tag_cache_snapshot.error = "",
                                 tags |-> get_tag_cache_snapshot.tags],
                     !.needs_refresh = \/ ~get_tag_cache_snapshot.present
                                       \/ is_tag_cache_stale(get_tag_cache_snapshot)]]
    /\ TagsUnchanged

\* Line 53.
TagsCheck(t) ==
    /\ t \in DOMAIN tagReqs
    /\ tagReqs[t].pc = "check"
    /\ tagReqs' = [tagReqs EXCEPT ![t] =
           [@ EXCEPT !.pc = "trigger",
                     !.refreshing = is_refresh_in_progress,
                     !.saw = is_refresh_in_progress]]
    /\ TagsUnchanged

\* Lines 54-58.
TagsTrigger(t) ==
    /\ t \in DOMAIN tagReqs
    /\ tagReqs[t].pc = "trigger"
    /\ IF tagReqs[t].needs_refresh /\ ~tagReqs[t].refreshing
       THEN /\ tagRefresh' = ensure_tag_cache_refresh(tagRefresh)
            /\ Len(tagRefresh'.threads) <= MaxRefreshes
            /\ tagReqs' = [tagReqs EXCEPT ![t] =
                   [@ EXCEPT !.pc = "poll",
                             !.refreshing = TRUE,
                             !.ensured = @ + 1,
                             !.wait_deadline = now + TAG_WAIT_SECONDS]]
       ELSE /\ tagReqs' = [tagReqs EXCEPT ![t] =
                   [@ EXCEPT !.pc = "poll",
                             !.wait_deadline = now + TAG_WAIT_SECONDS]]
            /\ UNCHANGED tagRefresh
    /\ TagsKeepRegistry

\* Lines 59-62: the loop condition, the snapshot and the first break.
TagsPoll(t) ==
    /\ t \in DOMAIN tagReqs
    /\ tagReqs[t].pc = "poll"
    /\ tagReqs' = [tagReqs EXCEPT ![t] =
           IF now >= tagReqs[t].wait_deadline THEN [@ EXCEPT !.pc = "respond"]
           ELSE IF get_tag_cache_snapshot.present /\ get_tag_cache_snapshot.tags # <<>>
           THEN [@ EXCEPT !.pc = "respond", !.entry = get_tag_cache_snapshot]
           ELSE [@ EXCEPT !.pc = "recheck", !.entry = get_tag_cache_snapshot]]
    /\ TagsUnchanged

\* Lines 63-64 and 68-69.
TagsRecheck(t) ==
    /\ t \in DOMAIN tagReqs
    /\ tagReqs[t].pc = "recheck"
    /\ tagReqs' = [tagReqs EXCEPT ![t] =
           [@ EXCEPT !.refreshing = is_refresh_in_progress,
                     !.pc = IF is_refresh_in_progress THEN "sleep"
                            ELSE IF tagReqs[t].needs_refresh THEN "retrigger"
                            ELSE "respond"]]
    /\ TagsUnchanged

\* Lines 65-67.
TagsRetrigger(t) ==
    /\ t \in DOMAIN tagReqs
    /\ tagReqs[t].pc = "retrigger"
    /\ tagRefresh' = ensure_tag_cache_refresh(tagRefresh)
    /\ Len(tagRefresh'.threads) <= MaxRefreshes
    /\ tagReqs' = [tagReqs EXCEPT ![t] =
           [@ EXCEPT !.pc = "sleep", !.refreshing = TRUE, !.ensured = @ + 1]]
    /\ TagsKeepRegistry

\* Line 70.
TagsSleep(t) ==
    /\ t \in DOMAIN tagReqs
    /\ tagReqs[t].pc = "sleep"
    /\ tagReqs' = [tagReqs EXCEPT ![t] = [@ EXCEPT !.pc = "poll", !.slept = 1]]
    /\ TagsUnchanged

\* Lines 72-100; the locals that are not looked at again are dropped.
TagsRespond(t) ==
    /\ t \in DOMAIN tagReqs
    /\ tagReqs[t].pc = "respond"
    /\ tagReqs' = [tagReqs EXCEPT ![t] =
           [@ EXCEPT
               !.pc = "done",
               !.entry = NoTagEntry,
               !.wait_deadline = 0,
               !.resp =
                   IF tagReqs[t].entry.present /\ tagReqs[t].entry.tags # <<>>
                   THEN [code |-> 200, tags |-> tagReqs[t].entry.tags,
                         source |-> tagReqs[t].entry.source, message |-> ""]
                   ELSE [code |-> 202, tags |-> <<>>, source |-> "",
                         message |-> IF /\ tagReqs[t].entry.present
                                        /\ tagReqs[t].entry.error # ""
                                     THEN tagReqs[t].entry.error
                                     ELSE "Gathering tags, please try again shortly."]]]
    /\ TagsUnchanged

\* api_tags, one step of request t.
ApiTagsStep(t) ==
    \/ TagsSnapshot(t)
    \/ TagsCheck(t)
    \/ TagsTrigger(t)
    \/ TagsPoll(t)
    \/ TagsRecheck(t)
    \/ TagsRetrigger(t)
    \/ TagsSleep(t)
    \/ TagsRespond(t)

----
\* Specification Tags: up to MaxTagRequests concurrent requests for one key,
\* the refreshes they start, and the clock.

\* What a refresh may meet: the listing of the user's tags answers with no
\* tag or with one, or both listings and the item fetch fail.
RefreshRemotes ==
    {[user_tags |-> Listing(FALSE, <<>>, TRUE, TRUE),
      global_tags |-> Listing(TRUE, <<>>, TRUE, TRUE), bad |-> {}],
     [user_tags |-> Listing(FALSE, ShortListing, TRUE, FALSE),
      global_tags |-> Listing(TRUE, <<>>, TRUE, TRUE), bad |-> {}],
     [user_tags |-> Listing(TRUE, <<>>, TRUE, TRUE),
      global_tags |-> Listing(TRUE, <<>>, TRUE, TRUE), bad |-> {0}]}

InitTags == InitWith(Remotes({JobsCatalog}, {0}, {TRUE}, {TRUE}), {NoTagEntry})

NextTags ==
    \/ \E lib_id \in {"", "lib"} : TagsArrive(lib_id)
    \/ \E t \in 1..MaxTagRequests : ApiTagsStep(t)
    \/ \E i \in 1..MaxRefreshes, r \in RefreshRemotes :
           RefreshBuild(i, r.user_tags, r.global_tags, r.bad)
    \/ \E i \in 1..MaxRefreshes : RefreshStore(i)
    \/ \E i \in 1..MaxRefreshes : RefreshFinish(i)
    \/ Tick

SpecTags == InitTags /\ [][NextTags]_vars

\* The refreshes of the key that are running.
RunningRefreshes == {i \in DOMAIN tagRefresh.threads : tagRefresh.threads[i].pc # "done"}

\* C17: at most one refresh of the tag cache entry runs at a time, whatever
\* the interleaving of the requests' check for a running refresh and their
\* call that starts one; a request that asked for a refresh holds the
\* refresh as in progress.
C17_OneRefreshAtATime ==
    /\ Cardinality(RunningRefreshes) <= 1
    /\ RunningRefreshes # {} => is_refresh_in_progress
    /\ \A t \in DOMAIN tagReqs :
           tagReqs[t].ensured > 0 /\ tagReqs[t].pc \in {"poll", "sleep"}
               => tagReqs[t].refreshing

\* Two requests both found no refresh running before either asked for one;
\* both asked, and one refresh runs.
C17_Witness ==
    /\ Len(tagReqs) = 2
    /\ \A t \in {1, 2} :
           /\ tagReqs[t].needs_refresh
           /\ ~tagReqs[t].saw
           /\ tagReqs[t].ensured = 1
    /\ Len(tagRefresh.threads) = 1
    /\ Cardinality(RunningRefreshes) = 1

\* C18: a request that finds a cached entry that is not stale is answered
\* at once with it: 200 with the entry's tags, without sleeping and without
\* asking for a refresh, whatever the cached vocabulary, an empty one
\* included.
C18_FreshEntryServedAtOnce ==
    \A t \in DOMAIN tagReqs :
        (/\ tagReqs[t].pc = "done"
         /\ tagReqs[t].resp.code # 400
         /\ tagReqs[t].cached.vocabulary
         /\ ~tagReqs[t].needs_refresh)
            => /\ tagReqs[t].resp.code = 200
               /\ tagReqs[t].resp.tags = tagReqs[t].cached.tags
               /\ tagReqs[t].slept = 0
               /\ tagReqs[t].ensured = 0

----
\* services/tags.py normalize_tags as a list.  A tag string is the sequence
\* of its parts between "," and ";"; joining a list with "," and splitting
\* it again gives the list back, as no part holds a separator.

RECURSIVE Orders(_)
\* The lists that hold every element of S once.
Orders(S) ==
    IF S = {} THEN {<<>>}
    ELSE UNION {{<<x>> \o q : q \in Orders(S \ {x})} : x \in S}

\* sorted(list({...}), key=str.lower): the set is iterated in an order the
\* string hashes decide, and the stable sort keeps that order among names
\* with the same lower-cased form.
normalize_tags_lists(parts) ==
    {q \in Orders(normalize_tags(parts)) :
        \A i, j \in DOMAIN q :
            i < j => ~StrLess(casefold(TagText(q[j])), casefold(TagText(q[i])))}

TagParts == {"Keep", "keep", " Keep", "Drop", " "}

\* One call of normalize_tags, and what a second call on its joined output
\* may return.
NormalizeTags(parts, tags) ==
    /\ lastReq = NoRequest
    /\ tags \in normalize_tags_lists(parts)
    /\ lastReq' = [handler |-> "normalize_tags", parts |-> parts]
    /\ lastResp' = [code |-> 0, tags |-> tags]
    /\ lastObs' = [again |-> normalize_tags_lists(tags)]
    /\ UNCHANGED <<remote, tagCache, tagRefresh, tagReqs, now, queryCache,
                   prefetchCache, jobs, jobTable, jobsByKey, jobPc, jobLocal>>

NextNormalize ==
    /\ lastReq = NoRequest
    /\ \E parts \in SeqsUpTo(TagParts, MaxTagParts) :
           \E tags \in normalize_tags_lists(parts) : NormalizeTags(parts, tags)

SpecNormalize == InitVocabulary /\ [][NextNormalize]_vars

\* C21: the output of normalize_tags is sorted by lower-cased name, holds no
\* name twice and no two names that are equal ignoring case, and normalizing
\* the joined output again gives the same list.
C21_NormalizedOnceAndForAll ==
    lastReq.handler = "normalize_tags" =>
        LET tags == lastResp.tags
        IN  /\ \A i, j \in DOMAIN tags :
                   i < j => /\ TagFold(tags[i]) # TagFold(tags[j])
                            /\ ~StrLess(casefold(TagText(tags[j])),
                                        casefold(TagText(tags[i])))
            /\ lastObs.again = {tags}

----
\* services/tags.py item_tags on an item with all three sections.

MaxSectionTags == 2

SectionNames == {"keep", " Keep", "Drop", " "}

ItemTags(item) ==
    /\ lastReq = NoRequest
    /\ lastReq' = [handler |-> "item_tags", item |-> item]
    /\ lastResp' = [code |-> 0, tags |-> item_tags(item)]
    /\ lastObs' = [names |-> ItemTagNames(item)]
    /\ UNCHANGED <<remote, tagCache, tagRefresh, tagReqs, now, queryCache,
                   prefetchCache, jobs, jobTable, jobsByKey, jobPc, jobLocal>>

NextItemTags ==
    /\ lastReq = NoRequest
    /\ \E tag_items, tags, inherited \in SeqsUpTo(SectionNames, MaxSectionTags) :
           ItemTags([TagItems |-> [i \in DOMAIN tag_items |-> [Name |-> tag_items[i]]],
                     Tags |-> tags, InheritedTags |-> inherited])

SpecItemTags == InitVocabulary /\ [][NextItemTags]_vars

\* The positions of the merged sections that hold the first non-blank
\* occurrence of a name, ignoring case and surrounding whitespace.
FirstOccurrences(names) ==
    {i \in DOMAIN names :
        /\ TagStrip(names[i]) # ""
        /\ \A j \in 1..(i - 1) :
               TagFold(TagStrip(names[j])) # TagFold(TagStrip(names[i]))}

\* C22: item_tags returns the names of TagItems, Tags and InheritedTags, in
\* that order, trimmed, without blank names and without two names that are
\* equal ignoring case: the k-th name returned is the trimmed spelling at the
\* k-th first occurrence in the merged sections.
C22_ItemTagsFirstSpellingInOrder ==
    lastReq.handler = "item_tags" =>
        LET item == lastReq.item
            merged == [i \in DOMAIN item.TagItems |-> item.TagItems[i].Name]
                          \o item.Tags \o item.InheritedTags
            first == FirstOccurrences(merged)
            tags == lastResp.tags
        IN  /\ Len(tags) = Cardinality(first)
            /\ \A i \in first :
                   tags[Cardinality({j \in first : j <= i})] = TagStrip(merged[i])
            /\ \A k \in DOMAIN tags : tags[k] # "" /\ TagStrip(tags[k]) = tags[k]
            /\ \A k, l \in DOMAIN tags : k < l => TagFold(tags[k]) # TagFold(tags[l])

C22_Witness ==
    /\ lastReq.handler = "item_tags"
    /\ lastReq.item.TagItems = <<[Name |-> " Keep"]>>
    /\ lastReq.item.Tags = <<"keep", " ">>
    /\ lastReq.item.InheritedTags = <<"Drop", "keep">>
    /\ lastResp.tags = <<"Keep", "Drop">>

----
\* The three paged scans against remotes that cap their pages, omit
\* TotalRecordCount or report it too small: _collect_matches, the loop of
\* api_export and aggregate_tags_from_items.

EXPORT_FETCH_LIMIT == 3

\* api_export: the filters of the request body.
ExportParams(req) ==
    [include_tag_keys |-> {TagFold(t) : t \in normalize_tags(req.includeTags)},
     exclude_tag_keys |-> {TagFold(t) : t \in normalize_tags(req.excludeTags)},
     excluded_types |-> IF req.excludeCollections THEN COLLECTION_ITEM_TYPES ELSE {},
     title_query |-> StripText(req.titleQuery),
     sort_by |-> "SortName",
     sort_order |-> req.sortOrder]

\* The for loop over a page of api_export: the serialized matches.
ExportMatches(items, p) ==
    LET kept == SelectSeq(items,
                    LAMBDA it : item_matches_filters(it, p.include_tag_keys,
                                    p.exclude_tag_keys, casefold(p.title_query)))
    IN  [i \in DOMAIN kept |-> serialize_item_for_response(kept[i])]

\* The export scan so far: the matches, the ids of the raw items received and
\* <<start, limit, size>> of every page fetched.
NoPages == [matched |-> <<>>, total_processed |-> 0, received |-> <<>>, fetches |-> <<>>]

\* A page of api_export added to the scan: the items left after the excluded
\* types are counted and filtered.
ExportAdd(p, acc, start_index, fetch_limit, raw_items) ==
    LET items == SelectSeq(raw_items, LAMBDA it : it.Type \notin p.excluded_types)
    IN  [matched |-> acc.matched \o ExportMatches(items, p),
         total_processed |-> acc.total_processed + Len(items),
         received |-> acc.received \o [i \in DOMAIN raw_items |-> raw_items[i].Id],
         fetches |-> Append(acc.fetches, <<start_index, fetch_limit, Len(raw_items)>>)]

RECURSIVE ExportPages(_, _, _, _)
ExportNext_TrustTotal(p, start_index, fetch_limit, page_size, total_count, acc) ==
    IF total_count # NoTotal
    THEN IF start_index < total_count
         THEN ExportPages(p, start_index, ShrunkFetchLimit(page_size, fetch_limit), acc)
         ELSE acc
    ELSE IF page_size < fetch_limit THEN acc
    ELSE ExportPages(p, start_index, fetch_limit, acc)
\* The end of the loop body of api_export, after start_index += page_size:
\* continue while the reported total lies ahead, stop after a short page.
ExportNext(p, start_index, fetch_limit, page_size, total_count, acc) ==
    IF total_count # NoTotal /\ start_index < total_count
    THEN ExportPages(p, start_index, ShrunkFetchLimit(page_size, fetch_limit), acc)
    ELSE IF page_size < fetch_limit THEN acc
    ELSE ExportPages(p, start_index, fetch_limit, acc)

\* The loop body of api_export, given the payload of its page.
ExportPage(p, start_index, fetch_limit, acc, payload) ==
    IF payload.Items = <<>>
    THEN [acc EXCEPT !.fetches = Append(@, <<start_index, fetch_limit, 0>>)]
    ELSE ExportNext(p, start_index + Len(payload.Items), fetch_limit,
                    Len(payload.Items), payload.TotalRecordCount,
                    ExportAdd(p, acc, start_index, fetch_limit, payload.Items))

\* The while loop of api_export: one page per call.
ExportPages(p, start_index, fetch_limit, acc) ==
    ExportPage(p, start_index, fetch_limit, acc,
               page_items(start_index, fetch_limit, p.title_query,
                          p.excluded_types, p.sort_by, p.sort_order))

\* api_export after its scan: the rows of the CSV file, by item id.
ExportRows(p, scan) ==
    LET sorted_items == sort_items_for_response(scan.matched, p.sort_by, p.sort_order)
    IN  [code |-> 200, rows |-> [i \in DOMAIN sorted_items |-> sorted_items[i].Id],
         scan |-> scan]

\* routes/items.py api_export.
api_export(req) ==
    ExportRows(ExportParams(req),
               ExportPages(ExportParams(req), 0, EXPORT_FETCH_LIMIT, NoPages))

RECURSIVE AggregateFetches(_, _, _)
\* The end of the loop body of aggregate_tags_from_items.
AggregateNext(next_start, current_limit, batch_size, total_count, acc) ==
    IF total_count # NoTotal /\ next_start < total_count
    THEN AggregateFetches(next_start, ShrunkFetchLimit(batch_size, current_limit), acc)
    ELSE IF batch_size < current_limit THEN acc
    ELSE AggregateFetches(next_start, current_limit, acc)

\* The loop body of aggregate_tags_from_items, given the payload of its page.
AggregateFetched(current_start, current_limit, acc, items, total_count) ==
    IF items = <<>>
    THEN [acc EXCEPT !.fetches = Append(@, <<current_start, current_limit, 0>>)]
    ELSE AggregateNext(current_start + Len(items), current_limit, Len(items), total_count,
             [acc EXCEPT !.total_processed = @ + Len(items),
                         !.received = @ \o [i \in DOMAIN items |-> items[i].Id],
                         !.fetches = Append(@, <<current_start, current_limit, Len(items)>>)])

\* The page_items calls of aggregate_tags_from_items and what they returned:
\* [received, fetches, total_processed].
AggregateFetches(current_start, current_limit, acc) ==
    AggregateFetched(current_start, current_limit, acc,
        page_items(current_start, current_limit, <<>>, {}, "SortName", "Ascending").Items,
        page_items(current_start, current_limit, <<>>, {}, "SortName",
                   "Ascending").TotalRecordCount)

MaxShort == 2      \* largest amount a remote under-reports its total by

\* Remotes that may cap their pages and report no total or too small a one.
PagingRemotes ==
    {[catalog |-> c, cap |-> k, search |-> TRUE, total |-> t,
      excludes |-> TRUE, sorts |-> TRUE, short |-> u] :
        c \in Catalogs({KeepGa, PlainAg}, MaxItems), k \in 0..MaxCap, t \in BOOLEAN,
        u \in 0..MaxShort}

InitPaging == InitWith({r \in PagingRemotes : r.total \/ r.short = 0}, {NoTagEntry})

\* One call of _collect_matches.
CollectMatches(p) ==
    /\ lastReq = NoRequest
    /\ lastReq' = [handler |-> "collect_matches", p |-> p]
    /\ LET r == collect_matches(p)
       IN  /\ lastResp' = [code |-> 0, matched |-> r.matched, complete |-> r.complete]
           /\ lastObs' = [fetches |-> r.consumed, exit |-> r.exit, received |-> <<>>,
                          total_processed |-> 0, issued |-> r.fetches]
    /\ UNCHANGED <<remote, tagCache, tagRefresh, tagReqs, now, queryCache,
                   prefetchCache, jobs, jobTable, jobsByKey, jobPc, jobLocal>>

\* One POST /api/export.
ApiExport(req) ==
    /\ lastReq = NoRequest
    /\ lastReq' = [handler |-> "export", req |-> req]
    /\ LET out == api_export(req)
       IN  /\ lastResp' = [code |-> out.code, rows |-> out.rows]
           /\ lastObs' = [fetches |-> out.scan.fetches, exit |-> "export",
                          received |-> out.scan.received,
                          total_processed |-> out.scan.total_processed]
    /\ UNCHANGED <<remote, tagCache, tagRefresh, tagReqs, now, queryCache,
                   prefetchCache, jobs, jobTable, jobsByKey, jobPc, jobLocal>>

\* One call of aggregate_tags_from_items from offset 0.
AggregateTags ==
    /\ lastReq = NoRequest
    /\ lastReq' = [handler |-> "aggregate"]
    /\ LET out == aggregate_tags_from_items(0, AGGREGATE_FETCH_LIMIT, {})
           log == AggregateFetches(0, AGGREGATE_FETCH_LIMIT, NoPages)
       IN  /\ lastResp' = [code |-> 0, counts |-> out.tally.counts]
           /\ lastObs' = [fetches |-> log.fetches, exit |-> "aggregate",
                          received |-> log.received,
                          total_processed |-> log.total_processed]
    /\ UNCHANGED <<remote, tagCache, tagRefresh, tagReqs, now, queryCache,
                   prefetchCache, jobs, jobTable, jobsByKey, jobPc, jobLocal>>

ScanCalls ==
    {[include_tag_keys |-> inc, exclude_tag_keys |-> {}, excluded_types |-> {},
      title_query |-> <<>>, sort_by |-> "SortName", sort_order |-> "Ascending",
      limit |-> limit, start_index |-> start, max_matches |-> target, bad |-> {}] :
        inc \in {{}, {"keep"}}, limit \in 1..AGGREGATE_FETCH_LIMIT,
        start \in 0..MaxStart, target \in {NoTarget, 1, 2}}

ExportRequests ==
    {[includeTags |-> inc, excludeTags |-> <<>>, excludeCollections |-> FALSE,
      titleQuery |-> <<>>, sortOrder |-> order] :
        inc \in {<<>>, <<"Keep">>}, order \in {"Ascending", "Descending"}}

NextPaging ==
    /\ lastReq = NoRequest
    /\ \/ \E p \in ScanCalls : CollectMatches(p)
       \/ \E req \in ExportRequests : ApiExport(req)
       \/ AggregateTags

SpecPaging == InitPaging /\ [][NextPaging]_vars

----
\* Claims checked under SpecPaging.

PagedScan == lastReq.handler \in {"collect_matches", "export", "aggregate"}

\* The remote offset a recorded scan started at.
ScanOffset == IF lastReq.handler = "collect_matches" THEN lastReq.p.start_index ELSE 0

RECURSIVE ItemsReceived(_)
\* The number of items in the pages of a fetch log.
ItemsReceived(fetches) ==
    IF fetches = <<>> THEN 0 ELSE Head(fetches)[3] + ItemsReceived(Tail(fetches))

CatalogIds == {remote.catalog[i].Id : i \in DOMAIN remote.catalog}

\* C24: against a remote that caps its pages, the export scan and the tag
\* aggregation request the first page at offset 0 and every later page at the
\* offset equal to the number of items received so far with the limit equal
\* to the cap, fetch nothing after an empty page, and receive every item of
\* the catalog exactly once.
C24_SequentialScanFollowsCap ==
    (lastReq.handler \in {"export", "aggregate"} /\ remote.cap > 0) =>
        LET fetches == lastObs.fetches
        IN  /\ fetches[1][1] = 0
            /\ \A i \in 2..Len(fetches) :
                   /\ fetches[i][1] = ItemsReceived(SubSeq(fetches, 1, i - 1))
                   /\ fetches[i][2] = remote.cap
                   /\ fetches[i - 1][3] > 0
            /\ Len(lastObs.received) = Len(remote.catalog)
            /\ SeqToSet(lastObs.received) = CatalogIds
            /\ lastObs.total_processed = Len(remote.catalog)

\* C28: a scan of _collect_matches that entered its loop reports complete
\* exactly when it left the loop on an empty page or on a short page, and a
\* short page that ends a complete scan is the last of the catalog; a scan
\* that stopped on its target count or left the loop in any other way
\* reports incomplete.
C28_CompleteOnlyAtExhaustion ==
    (lastReq.handler = "collect_matches" /\ lastObs.exit # "no scan") =>
        /\ lastResp.complete <=> lastObs.exit \in {"empty page", "short page"}
        /\ (lastResp.complete /\ lastObs.exit = "short page") =>
               LET last == lastObs.fetches[Len(lastObs.fetches)]
               IN  last[1] + last[3] >= Len(remote.catalog)

----
\* _collect_matches step by step, with the page fetches running on the
\* executor's threads.  jobLocal = [pc, st, done, overtook, exit]:
\*   st        the locals of the scan, as in ScanLoop;
\*   done      the start offsets of the pending futures that have a result;
\*   overtook  whether some fetch finished before one with a smaller offset;
\*   exit      the statement that left the loop.

DueStart_LatestDone(st, done) ==
    IF \E f \in st.pending : f[1] \in done
    THEN CHOOSE s \in done : /\ \E f \in st.pending : f[1] = s
                             /\ \A f \in st.pending : f[1] \in done => f[1] <= s
    ELSE st.next_process_start
\* "future = pending.get(next_process_start)": the offset of the page the
\* loop takes next.
DueStart(st, done) == st.next_process_start

\* The rest of the loop body once the page is filtered: [st, exit].
PageTaken(p, st, st1, page_start, page_size, stop_early, total_count) ==
    IF page_size = 0
    THEN [st |-> [st1 EXCEPT !.matched = st.matched], exit |-> "empty page"]
    ELSE IF stop_early THEN [st |-> st1, exit |-> "target"]
    ELSE IF total_count # NoTotal /\ page_start + page_size < total_count
    THEN [st |-> SchedulePages(p, [st1 EXCEPT !.fetch_limit =
                                      ShrunkFetchLimit(page_size, st.fetch_limit)]),
          exit |-> "none"]
    ELSE IF page_size < st.fetch_limit THEN [st |-> st1, exit |-> "short page"]
    ELSE [st |-> SchedulePages(p, st1), exit |-> "none"]

\* The loop body from future.result() on: the page of future f is filtered.
TakePage(p, st, f, payload) ==
    LET mp == MatchPage(SelectSeq(payload.Items,
                                  LAMBDA it : it.Type \notin p.excluded_types),
                        st.matched, p)
    IN  PageTaken(p, st,
                  [st EXCEPT !.pending = @ \ {f},
                             !.next_process_start = AdvanceProcessStart(st),
                             !.matched = mp.matched,
                             !.consumed = Append(@, <<f[1], f[2], Len(payload.Items),
                                                     Len(st.fetches)>>)],
                  f[1], Len(payload.Items), mp.stop_early, payload.TotalRecordCount)

OrderUnchanged ==
    UNCHANGED <<remote, tagCache, tagRefresh, tagReqs, now, queryCache,
                prefetchCache, jobs, jobTable, jobsByKey, jobPc>>

\* _collect_matches is called and queues its first page fetches.
ScanBegin(p) ==
    /\ lastReq = NoRequest
    /\ lastReq' = [handler |-> "scan", p |-> p]
    /\ jobLocal' = [pc |-> "wait",
                    st |-> SchedulePages(p, [pending |-> {},
                                             next_fetch_start |-> p.start_index,
                                             next_process_start |-> p.start_index,
                                             fetch_limit |-> InitialFetchLimit(p),
                                             matched |-> <<>>,
                                             fetches |-> <<>>,
                                             consumed |-> <<>>]),
                    done |-> {}, overtook |-> FALSE, exit |-> "none"]
    /\ UNCHANGED <<lastResp, lastObs>>
    /\ OrderUnchanged

\* An executor thread finishes the page fetch f.
FetchDone(f) ==
    /\ lastReq.handler = "scan" /\ jobLocal.pc = "wait"
    /\ f \in jobLocal.st.pending /\ f[1] \notin jobLocal.done
    /\ jobLocal' = [jobLocal EXCEPT
                       !.done = @ \cup {f[1]},
                       !.overtook = @ \/ \E g \in jobLocal.st.pending :
                                            g[1] < f[1] /\ g[1] \notin jobLocal.done]
    /\ UNCHANGED <<lastReq, lastResp, lastObs>>
    /\ OrderUnchanged

\* The scan finds no future for the offset it is due to take and returns.
ScanNoFuture ==
    /\ lastReq.handler = "scan" /\ jobLocal.pc = "wait"
    /\ \A f \in jobLocal.st.pending : f[1] # DueStart(jobLocal.st, jobLocal.done)
    /\ jobLocal' = [jobLocal EXCEPT !.pc = "done", !.exit = "no future"]
    /\ lastResp' = [code |-> 0, matched |-> jobLocal.st.matched, complete |-> TRUE]
    /\ UNCHANGED <<lastReq, lastObs>>
    /\ OrderUnchanged

\* The scan takes the result of the future it waits for and filters the page.
ScanTake(f) ==
    /\ lastReq.handler = "scan" /\ jobLocal.pc = "wait"
    /\ f \in jobLocal.st.pending
    /\ f[1] = DueStart(jobLocal.st, jobLocal.done)
    /\ f[1] \in jobLocal.done
    /\ LET r == TakePage(lastReq.p, jobLocal.st, f,
                         page_items(f[1], f[2], lastReq.p.title_query,
                                    lastReq.p.excluded_types, lastReq.p.sort_by,
                                    lastReq.p.sort_order))
       IN  /\ jobLocal' = [jobLocal EXCEPT
                              !.pc = IF r.exit = "none" THEN "wait" ELSE "done",
                              !.st = r.st,
                              !.done = @ \ {f[1]},
                              !.exit = r.exit]
           /\ lastResp' = IF r.exit = "none" THEN lastResp
                          ELSE [code |-> 0, matched |-> r.st.matched,
                                complete |-> r.exit # "target"]
    /\ UNCHANGED <<lastReq, lastObs>>
    /\ OrderUnchanged

OrderCalls ==
    {[include_tag_keys |-> inc, exclude_tag_keys |-> {}, excluded_types |-> {},
      title_query |-> <<>>, sort_by |-> "SortName", sort_order |-> "Ascending",
      limit |-> limit, start_index |-> 0, max_matches |-> target, bad |-> {}] :
        inc \in {{}, {"keep"}}, limit \in 1..ITEM_PAGE_FETCH_LIMIT,
        target \in {NoTarget, 2, 7}}

InitOrder == InitWith({r \in PagingRemotes : r.short = 0}, {NoTagEntry})

NextOrder ==
    \/ \E p \in OrderCalls : ScanBegin(p)
    \/ /\ lastReq.handler = "scan"
       /\ \E f \in jobLocal.st.pending : FetchDone(f)
    \/ ScanNoFuture
    \/ /\ lastReq.handler = "scan"
       /\ \E f \in jobLocal.st.pending : ScanTake(f)

SpecOrder == InitOrder /\ [][NextOrder]_vars

\* C30: in a scan the pages are taken in strictly ascending start offset, no
\* queued page with a smaller offset is left behind the page taken last, and
\* when the scan returns, its matches and the pages it took are those of the
\* scan that waits for every fetch in turn, in whatever order the fetches
\* finished.
C30_PagesFilteredInOffsetOrder ==
    lastReq.handler = "scan" =>
        LET taken == jobLocal.st.consumed
        IN  /\ \A i, j \in DOMAIN taken : i < j => taken[i][1] < taken[j][1]
            /\ \A f \in jobLocal.st.pending :
                   taken # <<>> => taken[Len(taken)][1] < f[1]
            /\ jobLocal.pc = "done" =>
                   /\ jobLocal.st.matched = collect_matches(lastReq.p).matched
                   /\ taken = collect_matches(lastReq.p).consumed
                   /\ jobLocal.exit = collect_matches(lastReq.p).exit

\* A scan returned matches from two pages or more although a later page
\* had arrived before an earlier one.
C30_Witness ==
    /\ lastReq.handler = "scan"
    /\ jobLocal.pc = "done"
    /\ jobLocal.overtook
    /\ Len(jobLocal.st.consumed) >= 2
    /\ Len(jobLocal.st.matched) >= 2

----
\* services/tags.py jf_update_tags and routes/apply.py api_apply.  An item
\* id of 0 stands for a missing id.  The items carry no Path, so no .nfo file
\* is written.

NoItemId == 0

\* tag.lower(): the lower-cased text of a name.
TagLower(t) == casefold(TagText(t))

RECURSIVE MergeAdded(_, _)
\* "for tag in add: if tag: merged[tag.lower()] = tag"; merged maps the
\* lower-cased text of a name to its spelling.
MergeAdded(merged, add) ==
    IF add = <<>> THEN merged
    ELSE IF Head(add) = "" THEN MergeAdded(merged, Tail(add))
    ELSE MergeAdded([k \in DOMAIN merged \cup {TagLower(Head(add))} |->
                        IF k = TagLower(Head(add)) THEN Head(add) ELSE merged[k]],
                    Tail(add))

\* "for tag in remove: if tag: merged.pop(tag.lower(), None)".
DropRemoved(merged, remove) ==
    [k \in DOMAIN merged \ {TagLower(t) : t \in SeqToSet(remove) \ {""}} |-> merged[k]]

\* sorted(merged.values(), key=str.lower): every value has its own key.
SortedTags(merged) ==
    CHOOSE q \in Orders({merged[k] : k \in DOMAIN merged}) :
        \A i, j \in DOMAIN q : i < j => StrLess(TagLower(q[i]), TagLower(q[j]))

\* final_tags of jf_update_tags for the fetched item.
final_tags(item, add, remove) ==
    SortedTags(DropRemoved(MergeAdded(MergeAdded(<<>>, item_tags(item)), add), remove))

ItemUrl(item_id) == IF item_id = 1 THEN "Items/1" ELSE "Items/2"

\* The catalog after the remote stored the tags of an update.
StoreTags(catalog, item_id, tags) ==
    [i \in DOMAIN catalog |->
        IF catalog[i].Id = item_id THEN [catalog[i] EXCEPT !.Tags = tags] ELSE catalog[i]]

\* jf_update_tags once the item is fetched: the payload is sent.
UpdateSent(catalog, item_id, tags, sent) ==
    [raised |-> sent.raised, error |-> sent.error, calls |-> sent.calls,
     tags |-> IF sent.raised THEN <<>> ELSE tags,
     catalog |-> IF sent.raised THEN catalog ELSE StoreTags(catalog, item_id, tags)]

\* jf_update_tags; out = [get, put, post]: what the remote answers to the
\* GET of the item, to the PUT and to a POST.
jf_update_tags(catalog, item_id, add, remove, out) ==
    IF item_id = NoItemId
    THEN [raised |-> TRUE, error |-> NetworkError, calls |-> <<>>, tags |-> <<>>,
          catalog |-> catalog]
    ELSE IF out.get # 200 \/ \A i \in DOMAIN catalog : catalog[i].Id # item_id
    THEN [raised |-> TRUE, error |-> IF out.get # 200 THEN out.get ELSE 404,
          calls |-> <<>>, tags |-> <<>>, catalog |-> catalog]
    ELSE UpdateSent(catalog, item_id,
             final_tags(CHOOSE it \in SeqToSet(catalog) : it.Id = item_id, add, remove),
             jf_put_with_fallback(ItemUrl(item_id),
                 [Id |-> item_id,
                  Tags |-> final_tags(CHOOSE it \in SeqToSet(catalog) : it.Id = item_id,
                                      add, remove)],
                 out.put, out.post))

MaxUpdateTags == 2

UpdateNames == {"Keep", "keep", " Keep", "Drop", ""}

UpdateCatalogs ==
    {<<[Item(1, KeepGa) EXCEPT !.Tags = tags]>> :
        tags \in {<<>>, <<"Keep">>, <<"keep", "Drop">>, <<" Keep", "drop">>}}

UpdateOutcomes ==
    {[get |-> g, put |-> u, post |-> o] :
        g \in {200, 404}, u \in {204, 405, 500, NetworkError}, o \in {204, 500}}

InitUpdate == InitWith(Remotes(UpdateCatalogs, {0}, {TRUE}, {TRUE}), {NoTagEntry})

\* One call of jf_update_tags, and what the same call returns for the item
\* the remote stored.
JfUpdateTags(item_id, add, remove, out) ==
    /\ lastReq = NoRequest
    /\ lastReq' = [handler |-> "jf_update_tags", item_id |-> item_id, add |-> add,
                   remove |-> remove, out |-> out]
    /\ LET r == jf_update_tags(remote.catalog, item_id, add, remove, out)
       IN  /\ remote' = [remote EXCEPT !.catalog = r.catalog]
           /\ lastResp' = [code |-> 0, raised |-> r.raised, error |-> r.error,
                           tags |-> r.tags]
           /\ lastObs' = [calls |-> r.calls, before |-> remote.catalog,
                          again |-> jf_update_tags(r.catalog, item_id, add, remove,
                                                   out).tags]
    /\ UNCHANGED <<tagCache, tagRefresh, tagReqs, now, queryCache,
                   prefetchCache, jobs, jobTable, jobsByKey, jobPc, jobLocal>>

NextUpdate ==
    /\ lastReq = NoRequest
    /\ \E add, remove \in SeqsUpTo(UpdateNames, MaxUpdateTags), out \in UpdateOutcomes :
           JfUpdateTags(1, add, remove, out)

SpecUpdate == InitUpdate /\ [][NextUpdate]_vars

\* The lower-cased texts of the non-empty names of a list.
LowerKeys(names) == {TagLower(t) : t \in SeqToSet(names) \ {""}}

\* C26: a call of jf_update_tags that does not raise returns the list it
\* sent, which holds, ignoring case, the existing tags and the added tags
\* without the removed ones, sorted by lower-cased name; and the same call
\* on the item the remote stored returns the same list.
C26_UpdateMergesAndIsIdempotent ==
    (lastReq.handler = "jf_update_tags" /\ ~lastResp.raised) =>
        LET tags == lastResp.tags
            existing == item_tags(lastObs.before[1])
            calls == lastObs.calls
        IN  /\ calls[Len(calls)].json.Tags = tags
            /\ LowerKeys(tags) = (LowerKeys(existing) \cup LowerKeys(lastReq.add))
                                     \ LowerKeys(lastReq.remove)
            /\ \A i, j \in DOMAIN tags :
                   i < j => StrLess(TagLower(tags[i]), TagLower(tags[j]))
            /\ lastObs.again = tags

----
\* routes/apply.py api_apply.  A change is [id, add, remove]; outs[i] is what
\* the remote answers during the update of change i.

\* format_http_error(exc) or str(exc): the message of a failed update.
ErrorText(error) ==
    CASE error = NetworkError -> "request failed"
      [] error = 404 -> "404 Client Error"
      [] error = 405 -> "405 Client Error"
      [] error = 500 -> "500 Server Error"
      [] OTHER -> "HTTP request failed"

NonEmpty(names) == SelectSeq(names, LAMBDA t : t # "")

\* The result entry of a change that was not sent to jf_update_tags.
NoChange(item_id, errors) ==
    [id |-> item_id, added |-> <<>>, removed |-> <<>>, errors |-> errors, tags |-> <<>>]

\* The result entry of a change after jf_update_tags returned or raised.
ChangeResult(item_id, adds, removes, update) ==
    IF update.raised THEN NoChange(item_id, <<ErrorText(update.error)>>)
    ELSE [id |-> item_id, added |-> adds, removed |-> removes, errors |-> <<>>,
          tags |-> update.tags]

RECURSIVE ApplyChanges(_, _, _, _)
ApplyUpdated_StopAtError(changes, outs, results, adds, removes, update) ==
    IF update.raised
    THEN [results |-> Append(results, ChangeResult(Head(changes).id, adds, removes, update)),
          catalog |-> update.catalog]
    ELSE ApplyChanges(Tail(changes), Tail(outs), update.catalog,
                      Append(results, ChangeResult(Head(changes).id, adds, removes, update)))
\* The try statement of the loop body and the rest of the loop.
ApplyUpdated(changes, outs, results, adds, removes, update) ==
    ApplyChanges(Tail(changes), Tail(outs), update.catalog,
                 Append(results, ChangeResult(Head(changes).id, adds, removes, update)))

\* The loop body of api_apply for the first of the changes left.
ApplyChange(changes, outs, catalog, results, item_id, adds, removes) ==
    IF item_id = NoItemId
    THEN ApplyChanges(Tail(changes), Tail(outs), catalog,
                      Append(results, NoChange(item_id, <<"Missing item id">>)))
    ELSE IF adds = <<>> /\ removes = <<>>
    THEN ApplyChanges(Tail(changes), Tail(outs), catalog,
                      Append(results, NoChange(item_id, <<>>)))
    ELSE ApplyUpdated(changes, outs, results, adds, removes,
                      jf_update_tags(catalog, item_id, adds, removes, Head(outs)))

\* "for change in changes": [results, catalog].
ApplyChanges(changes, outs, catalog, results) ==
    IF changes = <<>> THEN [results |-> results, catalog |-> catalog]
    ELSE ApplyChange(changes, outs, catalog, results, Head(changes).id,
                     NonEmpty(Head(changes).add), NonEmpty(Head(changes).remove))

\* routes/apply.py api_apply: [code, updated, catalog].
api_apply(user_id, changes, outs, catalog) ==
    IF user_id = ""
    THEN [code |-> 400, updated |-> <<>>, catalog |-> catalog]
    ELSE [code |-> 200,
          updated |-> ApplyChanges(changes, outs, catalog, <<>>).results,
          catalog |-> ApplyChanges(changes, outs, catalog, <<>>).catalog]

MaxChanges == 2

ApplyInputs ==
    {[change |-> [id |-> id, add |-> add, remove |-> remove], out |-> out] :
        id \in {NoItemId, 1}, add \in {<<>>, <<"Keep", "">>},
        remove \in {<<>>, <<"keep">>},
        out \in {[get |-> 200, put |-> 204, post |-> 204],
                 [get |-> 404, put |-> 204, post |-> 204],
                 [get |-> 200, put |-> 405, post |-> 500],
                 [get |-> 200, put |-> NetworkError, post |-> 204]}}

\* One POST /api/apply.
ApiApply(user_id, inputs) ==
    /\ lastReq = NoRequest
    /\ LET changes == [i \in DOMAIN inputs |-> inputs[i].change]
           outs == [i \in DOMAIN inputs |-> inputs[i].out]
       IN  /\ lastReq' = [handler |-> "apply", user_id |-> user_id,
                          changes |-> changes, outs |-> outs]
           /\ lastResp' = [code |-> api_apply(user_id, changes, outs, remote.catalog).code,
                           updated |-> api_apply(user_id, changes, outs,
                                                 remote.catalog).updated]
           /\ remote' = [remote EXCEPT !.catalog =
                            api_apply(user_id, changes, outs, remote.catalog).catalog]
           /\ lastObs' = [before |-> remote.catalog]
    /\ UNCHANGED <<tagCache, tagRefresh, tagReqs, now, queryCache,
                   prefetchCache, jobs, jobTable, jobsByKey, jobPc, jobLocal>>

NextApply ==
    /\ lastReq = NoRequest
    /\ \E user_id \in {"", "u1"}, inputs \in SeqsUpTo(ApplyInputs, MaxChanges) :
           ApiApply(user_id, inputs)

SpecApply == InitUpdate /\ [][NextApply]_vars

\* Whether the update of a change is attempted, and whether the remote makes
\* it fail (the only item of the catalog has id 1).
Attempted(change) ==
    change.id # NoItemId /\ (NonEmpty(change.add) # <<>> \/ NonEmpty(change.remove) # <<>>)

Fails(out) ==
    \/ out.get # 200
    \/ out.put = NetworkError
    \/ out.put >= 400 /\ (out.put \notin {405, 501} \/ out.post = NetworkError
                                                        \/ out.post >= 400)

\* C25: an answered /api/apply holds one result per change, in the order of
\* the changes; the result of a change whose update raised holds the error
\* message and empty added and removed lists, and the changes after it are
\* processed all the same: a change whose update succeeds reports its added
\* and removed names and the tags it stored.
C25_OneResultPerChange ==
    (lastReq.handler = "apply" /\ lastResp.code = 200) =>
        LET changes == lastReq.changes
            updated == lastResp.updated
        IN  /\ Len(updated) = Len(changes)
            /\ \A i \in DOMAIN changes :
                   /\ updated[i].id = changes[i].id
                   /\ (Attempted(changes[i]) /\ Fails(lastReq.outs[i])) =>
                          /\ Len(updated[i].errors) = 1
                          /\ updated[i].errors[1] # "Missing item id"
                          /\ updated[i].added = <<>>
                          /\ updated[i].removed = <<>>
                   /\ (Attempted(changes[i]) /\ ~Fails(lastReq.outs[i])) =>
                          /\ updated[i].errors = <<>>
                          /\ updated[i].added = NonEmpty(changes[i].add)
                          /\ updated[i].removed = NonEmpty(changes[i].remove)
                          /\ LowerKeys(changes[i].add) \ LowerKeys(changes[i].remove)
                                 \subseteq LowerKeys(updated[i].tags)
                   /\ ~Attempted(changes[i]) =>
                          updated[i].added = <<>> /\ updated[i].removed = <<>>

\* The first of two changes failed and the second was applied.
C25_Witness ==
    /\ lastReq.handler = "apply" /\ lastResp.code = 200
    /\ Len(lastReq.changes) = 2
    /\ lastResp.updated[1].errors # <<>> /\ lastResp.updated[1].added = <<>>
    /\ lastResp.updated[2].errors = <<>> /\ lastResp.updated[2].added = <<"Keep">>
    /\ \E i \in DOMAIN remote.catalog : remote.catalog[i].Tags = <<"Keep">>

----
\* Specification Lru: the two caches of services/items_cache.py under any
\* sequence of reads and writes, with the clock.  lastObs carries, for each
\* cache, the keys it holds in the order of their last put or successful read
\* (least recent first), kept apart from the caches themselves.

MaxKeys == 3       \* cache keys in the cache specification
MaxLruTime == 2    \* the clock of the cache specification stops here

LruKeys == 1..MaxKeys

\* The lengths of the match lists given to set_prefetch_cache_entry.
MatchCounts == 0..(ITEM_PREFETCH_CACHE_LIMIT + 2)

Matches(n) == [i \in 1..n |-> i]

CacheKeys(cache) == {cache[i].key : i \in DOMAIN cache}

\* The order of use after key was put or read, and after a failed read, over
\* the keys the cache holds afterwards.
Held(order, cache) == SelectSeq(order, LAMBDA k : k \in CacheKeys(cache))

Used(order, key, cache) ==
    Held(Append(SelectSeq(order, LAMBDA k : k # key), key), cache)

InitLru ==
    /\ remote \in Remotes({JobsCatalog}, {0}, {TRUE}, {TRUE})
    /\ tagCache = NoTagEntry
    /\ tagRefresh = NoRefresh
    /\ tagReqs = <<>>
    /\ now = 0
    /\ queryCache = <<>>
    /\ prefetchCache = <<>>
    /\ jobs = <<>>
    /\ jobTable = {}
    /\ jobsByKey = {}
    /\ jobPc = <<>>
    /\ jobLocal = <<>>
    /\ lastReq = NoRequest
    /\ lastResp = NoResponse
    /\ lastObs = [q |-> <<>>, p |-> <<>>, before |-> <<>>]

LruUnchanged ==
    UNCHANGED <<remote, tagCache, tagRefresh, tagReqs, now, jobs, jobTable,
                jobsByKey, jobPc, jobLocal>>

GetCachedResponse(key) ==
    LET r == get_cached_response(queryCache, key)
    IN  /\ queryCache' = r.cache
        /\ lastReq' = [handler |-> "get_cached_response", key |-> key]
        /\ lastResp' = [code |-> 0, hit |-> r.hit]
        /\ lastObs' = [q |-> IF r.hit THEN Used(lastObs.q, key, r.cache)
                                      ELSE Held(lastObs.q, r.cache),
                       p |-> lastObs.p, before |-> queryCache]
        /\ UNCHANGED prefetchCache
        /\ LruUnchanged

SetCachedResponse(key) ==
    /\ queryCache' = set_cached_response(queryCache, key, [code |-> 200])
    /\ lastReq' = [handler |-> "set_cached_response", key |-> key]
    /\ lastResp' = [code |-> 0, hit |-> FALSE]
    /\ lastObs' = [q |-> Used(lastObs.q, key, queryCache'), p |-> lastObs.p,
                   before |-> queryCache]
    /\ UNCHANGED prefetchCache
    /\ LruUnchanged

GetPrefetchCacheEntry(key) ==
    LET r == get_prefetch_cache_entry(prefetchCache, key)
    IN  /\ prefetchCache' = r.cache
        /\ lastReq' = [handler |-> "get_prefetch_cache_entry", key |-> key]
        /\ lastResp' = [code |-> 0, hit |-> r.hit]
        /\ lastObs' = [q |-> lastObs.q,
                       p |-> IF r.hit THEN Used(lastObs.p, key, r.cache)
                                      ELSE Held(lastObs.p, r.cache),
                       before |-> prefetchCache]
        /\ UNCHANGED queryCache
        /\ LruUnchanged

SetPrefetchCacheEntry(key, n) ==
    /\ prefetchCache' = set_prefetch_cache_entry(prefetchCache, key, Matches(n), n, TRUE)
    /\ lastReq' = [handler |-> "set_prefetch_cache_entry", key |-> key,
                   matches |-> Matches(n), total_matches |-> n]
    /\ lastResp' = [code |-> 0, hit |-> FALSE]
    /\ lastObs' = [q |-> lastObs.q, p |-> Used(lastObs.p, key, prefetchCache'),
                   before |-> prefetchCache]
    /\ UNCHANGED queryCache
    /\ LruUnchanged

LruTick ==
    /\ now < MaxLruTime
    /\ now' = now + 1
    /\ lastReq' = NoRequest
    /\ lastResp' = NoResponse
    /\ lastObs' = [lastObs EXCEPT !.before = <<>>]
    /\ UNCHANGED <<remote, tagCache, tagRefresh, tagReqs, queryCache, prefetchCache,
                   jobs, jobTable, jobsByKey, jobPc, jobLocal>>

NextLru ==
    \/ \E key \in LruKeys : GetCachedResponse(key)
    \/ \E key \in LruKeys : SetCachedResponse(key)
    \/ \E key \in LruKeys : GetPrefetchCacheEntry(key)
    \/ \E key \in LruKeys : SetPrefetchCacheEntry(key, ITEM_PREFETCH_CACHE_LIMIT)
    \/ LruTick

SpecLru == InitLru /\ [][NextLru]_vars

\* The cache the last operation worked on, and the order of use of its keys.
LruCache == IF lastReq.handler \in {"get_cached_response", "set_cached_response"} THEN queryCache ELSE prefetchCache

LruPut == lastReq.handler \in {"set_cached_response", "set_prefetch_cache_entry"}

\* The keys the last put took out of the cache.
Evicted == (CacheKeys(lastObs.before) \cup {lastReq.key}) \ CacheKeys(LruCache)

C31_Caps ==
    /\ Len(queryCache) <= ITEM_QUERY_CACHE_MAX_ENTRIES
    /\ Len(prefetchCache) <= ITEM_PREFETCH_CACHE_MAX_ENTRIES
    /\ Cardinality(CacheKeys(queryCache)) = Len(queryCache)
    /\ Cardinality(CacheKeys(prefetchCache)) = Len(prefetchCache)
    /\ LruPut => lastReq.key \in CacheKeys(LruCache) \ Evicted

\* A put into a cache of at most max_entries entries, whose keys were last
\* used in the order given: the keys that leave the cache are the least
\* recently used ones, as many as needed and no more, and never the put key.
PutEvictsLeastRecent(order, key, max_entries, after) ==
    LET moved == Append(SelectSeq(order, LAMBDA k : k # key), key)
        n == IF Len(moved) > max_entries THEN Len(moved) - max_entries ELSE 0
    IN  /\ n < Len(moved)
        /\ CacheKeys(after) = {moved[i] : i \in (n + 1)..Len(moved)}

C31_PutStep ==
    /\ lastReq'.handler = "set_cached_response" =>
          PutEvictsLeastRecent(lastObs.q, lastReq'.key,
                               ITEM_QUERY_CACHE_MAX_ENTRIES, queryCache')
    /\ lastReq'.handler = "set_prefetch_cache_entry" =>
          PutEvictsLeastRecent(lastObs.p, lastReq'.key,
                               ITEM_PREFETCH_CACHE_MAX_ENTRIES, prefetchCache')

\* C31: the query cache never holds more than ITEM_QUERY_CACHE_MAX_ENTRIES
\* entries and the prefetch cache never more than
\* ITEM_PREFETCH_CACHE_MAX_ENTRIES, each key at most once; a put leaves its
\* own entry in the cache, evicts only when the cache would pass its cap, and
\* then evicts exactly the keys least recently put or successfully read.
C31_CapsHoldAndLeastRecentEvicted == []C31_Caps /\ [][C31_PutStep]_vars

\* A put evicted a key although a key stored earlier stayed: a successful
\* read had made the older entry the more recently used one.
C31_Witness ==
    /\ LruPut
    /\ \E key \in Evicted : \E i, j \in DOMAIN lastObs.before :
          /\ lastObs.before[i].key = key
          /\ lastObs.before[j].key \in CacheKeys(LruCache)
          /\ lastObs.before[j].stored_at < lastObs.before[i].stored_at

----
\* Specification PrefetchPut: set_prefetch_cache_entry on match lists of
\* every length up to two past ITEM_PREFETCH_CACHE_LIMIT.

NextPrefetchPut == \E key \in LruKeys, n \in MatchCounts : SetPrefetchCacheEntry(key, n)

SpecPrefetchPut == InitLru /\ [][NextPrefetchPut]_vars

\* The entry the prefetch cache holds for the key of the last call.
PutEntry == prefetchCache[CacheIndex(prefetchCache, lastReq.key)]

\* C32: after set_prefetch_cache_entry the entry of the key holds the first
\* min(len(matches), ITEM_PREFETCH_CACHE_LIMIT) matches in their order and
\* total_matches as given, and its truncated flag is set exactly when
\* total_matches exceeds the number of matches stored.
C32_StoresPrefixAndFlagsTruncation ==
    lastReq.handler = "set_prefetch_cache_entry" =>
        /\ CacheIndex(prefetchCache, lastReq.key) # 0
        /\ Len(PutEntry.matches) = Min(Len(lastReq.matches), ITEM_PREFETCH_CACHE_LIMIT)
        /\ \A i \in DOMAIN PutEntry.matches : PutEntry.matches[i] = lastReq.matches[i]
        /\ PutEntry.total_matches = lastReq.total_matches
        /\ PutEntry.truncated <=> lastReq.total_matches > Len(PutEntry.matches)

C32_Witness ==
    /\ lastReq.handler = "set_prefetch_cache_entry"
    /\ Len(lastReq.matches) > ITEM_PREFETCH_CACHE_LIMIT
    /\ Len(PutEntry.matches) = ITEM_PREFETCH_CACHE_LIMIT
    /\ PutEntry.truncated

----
\* Specification TagPages: collect_paginated_tags on tag listings of up to
\* MaxListing entries, with and without StartIndex applied and
\* TotalRecordCount reported.

MaxListing == 7    \* entries of a tag listing in the paging specification

PageEntries == {Entry("Keep", 2), Entry("drop", NoCount)}

RECURSIVE EntryLists(_)
EntryLists(n) ==
    IF n = 0 THEN {<<>>}
    ELSE EntryLists(n - 1) \cup
         {Append(l, e) : l \in {x \in EntryLists(n - 1) : Len(x) = n - 1},
                         e \in PageEntries}

PagedListings ==
    {Listing(FALSE, entries, offset, total) :
        entries \in EntryLists(MaxListing), offset \in BOOLEAN, total \in BOOLEAN}
    \cup {Listing(TRUE, <<>>, TRUE, TRUE)}

CollectPaginatedTags(listing) ==
    /\ lastReq' = [handler |-> "collect_paginated_tags", listing |-> listing]
    /\ lastResp' = collect_paginated_tags(listing)
    /\ lastObs' = NoObs
    /\ UNCHANGED <<remote, tagCache, tagRefresh, tagReqs, now, queryCache,
                   prefetchCache, jobs, jobTable, jobsByKey, jobPc, jobLocal>>

NextTagPages ==
    /\ lastReq = NoRequest
    /\ \E listing \in PagedListings : CollectPaginatedTags(listing)

SpecTagPages == InitVocabulary /\ [][NextTagPages]_vars

PagedCall == lastReq.handler = "collect_paginated_tags"

\* The (Name, ItemCount, Count) signature of the page the i-th request got.
RequestedSignature(i) ==
    LET items == tag_listing_page(lastReq.listing, lastResp.requests[i]).Items
    IN  [j \in DOMAIN items |-> <<items[j].Name, items[j].ItemCount>>]

\* The i-th page requested has the signature of the page before it.
Repeats(i) == i > 1 /\ RequestedSignature(i) = RequestedSignature(i - 1)

\* C33: collect_paginated_tags raises the "capped" TagPaginationError exactly
\* when the page it has just got has the signature of the page before it: that
\* page is the last one requested, and the call returns no counts, not even
\* those of the pages merged before.
C33_RepeatedPageRaisesAtOnce ==
    (PagedCall /\ ~lastReq.listing.fails) =>
        /\ \A i \in DOMAIN lastResp.requests :
              Repeats(i) => /\ i = Len(lastResp.requests)
                            /\ lastResp.error = "capped"
        /\ lastResp.error = "capped" =>
              /\ Repeats(Len(lastResp.requests))
              /\ ~lastResp.ok
              /\ lastResp.tally = EmptyTally

\* A listing that honours StartIndex repeats a page, and the call stops at
\* its second request although pages remain.
C33_Witness ==
    /\ PagedCall
    /\ lastReq.listing.offset
    /\ lastResp.error = "capped"
    /\ lastResp.requests = <<0, TAG_PAGE_LIMIT>>
    /\ Len(lastReq.listing.entries) > 2 * TAG_PAGE_LIMIT

\* The size of the k-th page of a listing that honours StartIndex.
PageSize(listing, k) ==
    Max(0, Min(TAG_PAGE_LIMIT, Len(listing.entries) - (k - 1) * TAG_PAGE_LIMIT))

\* The k-th page ends the listing: it is short or empty, or the offset after
\* it reaches the total the listing reports.
EndsAt(listing, k) ==
    \/ PageSize(listing, k) < TAG_PAGE_LIMIT
    \/ /\ listing.total
       /\ Len(listing.entries) > 0
       /\ k * TAG_PAGE_LIMIT >= Len(listing.entries)

\* The number of pages after which the listing ends.
EndPage(listing) ==
    CHOOSE k \in 1..(Len(listing.entries) + 1) :
        EndsAt(listing, k) /\ \A j \in 1..(k - 1) : ~EndsAt(listing, j)

\* C34: the page-count error is raised only for a listing that has not ended
\* after MAX_TAG_PAGES pages; a listing that honours StartIndex, repeats no
\* page and ends within MAX_TAG_PAGES pages, its last page being the
\* MAX_TAG_PAGES-th included, returns the counts of all its entries.
C34_PageCountErrorOnlyBeyondMax ==
    (PagedCall /\ ~lastReq.listing.fails /\ lastReq.listing.offset) =>
        /\ lastResp.error = "pages" => EndPage(lastReq.listing) > MAX_TAG_PAGES
        /\ (EndPage(lastReq.listing) <= MAX_TAG_PAGES /\ lastResp.error # "capped") =>
              /\ lastResp.ok
              /\ lastResp.tally = tag_counts_from_endpoint_items(lastReq.listing.entries)

----
\* Short pages in the three paged scans (checked under SpecPaging).

\* The page fetches of the recorded scan in the order they were requested,
\* as <<start, limit>>: the export scan and the tag aggregation request a
\* page only when they have taken the one before.
PagesIssued ==
    IF lastReq.handler = "collect_matches" THEN lastObs.issued
    ELSE [i \in DOMAIN lastObs.fetches |->
             <<lastObs.fetches[i][1], lastObs.fetches[i][2]>>]

\* The number of page fetches requested by the time the i-th page was taken.
IssuedBy(i) ==
    IF lastReq.handler = "collect_matches" THEN lastObs.fetches[i][4] ELSE i

\* The TotalRecordCount of the payloads of the recorded scan.
PayloadTotal ==
    IF remote.total THEN ReportedTotal(Len(remote.catalog)) ELSE NoTotal

\* The i-th page taken is not empty and shorter than requested, and the scan
\* did not stop on it for having reached its target count.
ShortPage(i) ==
    /\ 0 < lastObs.fetches[i][3]
    /\ lastObs.fetches[i][3] < lastObs.fetches[i][2]
    /\ ~(i = Len(lastObs.fetches) /\ lastObs.exit = "target")

\* The reported total lies beyond the end of the i-th page taken.
TotalAhead(i) ==
    /\ PayloadTotal # NoTotal
    /\ PayloadTotal > lastObs.fetches[i][1] + lastObs.fetches[i][3]

\* C35: after a non-empty page shorter than requested, if the reported
\* TotalRecordCount exceeds page start + page size the scan takes a further
\* page, and every page fetch requested from then on asks for the size of
\* the short page seen last; otherwise that page is the last one taken and a
\* scan of _collect_matches reports completion.
C35_ShortPageShrinksOrEnds ==
    PagedScan =>
        \A i \in DOMAIN lastObs.fetches :
            ShortPage(i) =>
                IF TotalAhead(i)
                THEN /\ i < Len(lastObs.fetches)
                     /\ \A k \in DOMAIN PagesIssued :
                           k > IssuedBy(i) =>
                              \E j \in i..Len(lastObs.fetches) :
                                  /\ ShortPage(j) /\ TotalAhead(j)
                                  /\ IssuedBy(j) < k
                                  /\ PagesIssued[k][2] = lastObs.fetches[j][3]
                ELSE /\ i = Len(lastObs.fetches)
                     /\ lastReq.handler = "collect_matches" => lastResp.complete

\* A scan of _collect_matches saw a capped page, went on, and requested a
\* later page with the size of the capped one.
C35_Witness ==
    /\ lastReq.handler = "collect_matches"
    /\ ShortPage(1) /\ TotalAhead(1)
    /\ Len(lastObs.fetches) >= 2
    /\ \E k \in DOMAIN PagesIssued :
          k > IssuedBy(1) /\ PagesIssued[k][2] = lastObs.fetches[1][3]

----
\* Specification Abort: POST /api/items and the prefetch jobs when page
\* fetches may fail, with the clock.

AbortCatalog == <<Item(1, KeepGa), Item(2, PlainAg), Item(3, PlainAg)>>

AbortRequests ==
    {Request(<<"Keep">>, <<>>, FALSE, <<>>, "Ascending", 0, ITEM_PAGE_FETCH_LIMIT),
     Request(<<>>, <<"Drop">>, FALSE, <<>>, "Ascending", 0, ITEM_PAGE_FETCH_LIMIT),
     Request(<<"Keep">>, <<>>, FALSE, <<>>, "Ascending",
             ITEM_PREFETCH_TRIGGER_START_INDEX, 1)}

\* The start offsets at which a page fetch of a request may fail.
AbortChoices == {{}, {0}, {ITEM_PAGE_FETCH_LIMIT}}

InitAbort == InitWith(Remotes({AbortCatalog}, {0}, {TRUE}, {TRUE}), {NoTagEntry})

NextAbort ==
    \/ \E req \in AbortRequests, bad \in AbortChoices :
          ApiItems(req, bad) /\ Len(jobs') <= MaxJobs
    \/ \E id \in 1..MaxJobs : JobStep(id)
    \/ Tick

SpecAbort == InitAbort /\ [][NextAbort]_vars

\* The step is a POST /api/items whose scan met a failed page fetch.
AbortedRequest == ItemsStep /\ lastObs'.path = "error"

\* The step is taken by the thread of job id, whose scan met a failed page
\* fetch.
AbortedJobStep(id) ==
    /\ id \in DOMAIN jobPc
    /\ jobPc'[id] # jobPc[id]
    /\ jobPc'[id] = "except" \/ jobPc[id] \in {"except", "error"}
       \/ (jobPc[id] = "finally" /\ jobs[id].status = "failed")


\* after is before with nothing written: the entries of the other keys are
\* the same in the same order, and the key's entry is the one before, or is
\* gone when that one had expired.
NothingWritten(before, after, key, expired(_)) ==
    /\ CacheWithout(after, key) = CacheWithout(before, key)
    /\ \A i \in DOMAIN after : after[i].key = key =>
           \E j \in DOMAIN before : before[j] = after[i]
    /\ \A j \in DOMAIN before : before[j].key = key /\ ~expired(before[j]) =>
           \E i \in DOMAIN after : after[i] = before[j]

C36_Step ==
    /\ AbortedRequest =>
          /\ lastResp'.code = 500
          /\ Len(lastObs'.fetches) > 0
          /\ jobs' = jobs
          /\ NothingWritten(queryCache, queryCache',
                            build_items_cache_key(lastObs'.state), _is_expired)
          /\ NothingWritten(prefetchCache, prefetchCache',
                            build_prefetch_cache_key(lastObs'.state),
                            _prefetch_is_expired)
    /\ \A id \in DOMAIN jobPc :
          AbortedJobStep(id) =>
              /\ queryCache' = queryCache /\ prefetchCache' = prefetchCache
              /\ ~jobLocal'[id].stored
              /\ jobPc[id] = "except" => jobs'[id].status = "failed"
              /\ jobPc[id] \in {"error", "finally"} => jobs'[id].status = "failed"

\* C36: a POST /api/items whose scan meets a failed page fetch answers 500
\* and writes no entry to the query cache or the prefetch cache: each cache
\* keeps the entries it had, except that an expired entry of the request's
\* own key is dropped and a live prefetch entry of that key becomes the most
\* recently used.  A job whose scan meets a failed page fetch is marked
\* failed and its thread changes neither cache.
C36_FailedFetchWritesNoEntry == [][C36_Step]_vars

\* A request was aborted by a failed page fetch while the prefetch cache
\* held an entry, and a job has failed.
C36_Witness ==
    /\ lastReq.handler = "items" /\ lastObs.path = "error"
    /\ lastResp.code = 500
    /\ prefetchCache # <<>>
    /\ \E id \in DOMAIN jobs : jobs[id].status = "failed"

C36_StrictStep ==
    AbortedRequest => queryCache' = queryCache /\ prefetchCache' = prefetchCache

\* C36 as stated: a request aborted by a failed page fetch leaves the query
\* cache and the prefetch cache exactly as they were before it started.
C36_FailedFetchLeavesCachesAsTheyWere == [][C36_StrictStep]_vars

----
\* The in-flight index (checked under SpecRace).

\* C37: every job whose status is pending or running is registered in the
\* in-flight index under its key, and the index entry of that key is that
\* job; the finally block of a job and the collection of an expired job take
\* away no index entry of a job other than the one finishing or collected.
C37_LiveJobsIndexed ==
    \A id \in DOMAIN jobs :
        jobs[id].status \in LiveStatuses =>
            /\ <<jobs[id].key, id>> \in jobsByKey
            /\ IndexedJob(jobsByKey, jobs[id].key) = id

----
\* The cache write of a job and its status (checked under SpecRetention).

\* The prefetch cache holds an entry under the key.
HoldsEntry(cache, key) == CacheIndex(cache, key) # 0

\* The step is the thread of job id calling set_prefetch_cache_entry.
StoreStep(id) == id \in DOMAIN jobPc /\ jobPc[id] = "store" /\ jobPc'[id] = "mark"

\* The step answers a status lookup that found the job completed.
SeesCompleted ==
    /\ lastReq'.handler = "status"
    /\ lastResp'.code = 200
    /\ lastResp'.status = "completed"

C38_State ==
    \A id \in DOMAIN jobs : jobs[id].status = "completed" => jobLocal[id].stored

C38_Step ==
    /\ \A id \in DOMAIN jobs :
          /\ StoreStep(id) =>
                /\ jobs'[id].status = "running"
                /\ HoldsEntry(prefetchCache', jobs[id].key)
                /\ prefetchCache'[CacheIndex(prefetchCache', jobs[id].key)].stored_at = now
                /\ prefetchCache'[CacheIndex(prefetchCache', jobs[id].key)].matches
                       = Slice(jobLocal[id].matches, 0, ITEM_PREFETCH_CACHE_LIMIT)
          /\ (jobs[id].status # "completed" /\ jobs'[id].status = "completed") =>
                jobLocal[id].stored
    /\ \A i \in DOMAIN prefetchCache :
          ~HoldsEntry(prefetchCache', prefetchCache[i].key) =>
              \/ _prefetch_is_expired(prefetchCache[i])
              \/ Len(prefetchCache') = ITEM_PREFETCH_CACHE_MAX_ENTRIES
    /\ SeesCompleted =>
          /\ jobLocal[lastReq'.job_id].stored
          /\ \/ lastResp'.availableMatches
                   = Min(jobs[lastReq'.job_id].total_matches, ITEM_PREFETCH_CACHE_LIMIT)
             \/ /\ lastResp'.availableMatches = 0
                /\ ~HoldsEntry(prefetchCache', jobs[lastReq'.job_id].key)

\* C38: a job whose status is completed has called set_prefetch_cache_entry
\* for its key before: the call stores the entry while the status is still
\* running, and the status becomes completed only afterwards.  An entry
\* leaves the prefetch cache only expired or evicted, so a status lookup that
\* finds the job completed finds its entry too unless that has happened.
C38_WriteBeforeCompleted == []C38_State /\ [][C38_Step]_vars

\* A status lookup found the job completed and its entry in the cache.
C38_Witness ==
    /\ lastReq.handler = "status"
    /\ lastResp.code = 200
    /\ lastResp.status = "completed"
    /\ lastResp.availableMatches > 0
    /\ lastResp.complete

----
\* The query cache and the 202 answer (checked under SpecApi).

\* The step is a POST /api/items answered with 202.
Deferred == ItemsStep /\ lastResp'.code = 202

C39_State == \A i \in DOMAIN queryCache : queryCache[i].response.code = 200

C39_Step ==
    /\ Deferred =>
          NothingWritten(queryCache, queryCache',
                         build_items_cache_key(lastObs'.state), _is_expired)
    /\ (ItemsStep /\ lastObs'.path = "query") => lastResp'.code = 200

\* C39: a POST /api/items answered with 202 writes nothing to the query
\* cache: the cache keeps its entries in their order, except that an expired
\* entry of the request's own key is dropped.  Every entry of the query cache
\* is a 200 payload, and an answer taken from the query cache is one.
C39_DeferredWritesNoQueryEntry == []C39_State /\ [][C39_Step]_vars

\* A request was answered with 202 while the query cache held entries.
C39_Witness ==
    /\ lastReq.handler = "items"
    /\ lastResp.code = 202
    /\ queryCache # <<>>

C39_StrictStep == Deferred => queryCache' = queryCache

\* C39 as stated: a request answered with 202 leaves the query cache
\* unchanged.
C39_DeferredLeavesQueryCacheUnchanged == [][C39_StrictStep]_vars

----
\* Specification Live: either one call of _collect_matches, step by step with
\* its page fetches on the executor's threads, or the job manager with the
\* threads of its jobs; every thread that can take a step eventually takes
\* one, and every page fetch returns.

MaxLiveItems == 3  \* items of a catalog (specification Live)

LiveRemotes ==
    {r \in PagingRemotes : r.short = 0 /\ Len(r.catalog) <= MaxLiveItems}

InitLive == InitWith(LiveRemotes, {NoTagEntry})

\* The thread that runs _collect_matches.
ScanThread ==
    /\ lastReq.handler = "scan"
    /\ ScanNoFuture \/ \E f \in jobLocal.st.pending : ScanTake(f)

\* The executor's threads.
ScanExecutor ==
    /\ lastReq.handler = "scan"
    /\ \E f \in jobLocal.st.pending : FetchDone(f)

NextLive ==
    \/ \E p \in OrderCalls : jobs = <<>> /\ ScanBegin(p)
    \/ ScanExecutor
    \/ ScanThread
    \/ \E req \in RetentionRequests :
          /\ lastReq.handler # "scan"
          /\ ApiItemsPrefetch(req)
          /\ Len(jobs') <= MaxJobs
    \/ \E id \in 1..MaxJobs : JobStep(id)

\* The thread of job id has not reached the end of _run_prefetch_job.
JobCanStep(id) == id \in DOMAIN jobPc /\ jobPc[id] # "done"

\* The thread of job id moved on to its next position.
JobStepped(id) == id \in DOMAIN jobPc /\ jobPc'[id] # jobPc[id]

\* The scan thread can take a step: the future it is due to take has its
\* result, or there is no such future.
ScanCanStep ==
    /\ lastReq.handler = "scan"
    /\ jobLocal.pc = "wait"
    /\ \A f \in jobLocal.st.pending :
           f[1] = DueStart(jobLocal.st, jobLocal.done) => f[1] \in jobLocal.done

\* The scan thread took a page or returned.
ScanStepped ==
    /\ lastReq.handler = "scan"
    /\ jobLocal.pc = "wait"
    /\ \/ jobLocal'.pc = "done"
       \/ Len(jobLocal'.st.consumed) > Len(jobLocal.st.consumed)

\* Every page fetch returns, and every thread that can take a step takes
\* one: weak fairness of the executor's threads, of the scan thread and of
\* the thread of each job.  For the scan thread and the job threads the
\* enabling condition is written out as a state predicate (ScanCanStep,
\* JobCanStep) and the step is recognised by what it changes.
LiveFairness ==
    /\ WF_vars(ScanExecutor)
    /\ ([]<>~ScanCanStep) \/ ([]<><<ScanStepped>>_vars)
    /\ \A id \in 1..MaxJobs : ([]<>~JobCanStep(id)) \/ ([]<><<JobStepped(id)>>_vars)

SpecLive == InitLive /\ [][NextLive]_vars /\ LiveFairness

\* The call of _collect_matches has returned.
ScanReturned == lastReq.handler = "scan" /\ jobLocal.pc = "done"

\* Job id has finished and the in-flight index does not hold it.
JobEnded(id) ==
    /\ id \in DOMAIN jobs
    /\ jobs[id].status \in FinishedStatuses
    /\ jobPc[id] = "done"
    /\ <<jobs[id].key, id>> \notin jobsByKey

\* C40: a call of _collect_matches, with or without a target count, returns
\* when every page fetch returns; and every prefetch job that was started
\* reaches completed or failed and is then not in the in-flight index.
C40_ScanReturnsAndJobsEnd ==
    /\ (lastReq.handler = "scan") ~> ScanReturned
    /\ \A id \in 1..MaxJobs : (id \in DOMAIN jobs) ~> JobEnded(id)

\* Two jobs of one key have ended, one of them completed.
C40_Witness ==
    /\ Len(jobs) = MaxJobs
    /\ \A id \in DOMAIN jobs : JobEnded(id)
    /\ \E id \in DOMAIN jobs : jobs[id].status = "completed"
====
